---- MODULE Spec2Model ----
(***************************************************************************)
(* The generation-task supervisor of the game client: the level-entry     *)
(* flow of screens/procedural_loading.rs (ground and sky jobs, the gate   *)
(* to the gameplay screen, the failure fallback), the prompt listener of  *)
(* menus/generate.rs, and the in-gameplay prop jobs of                    *)
(* screens/procedural_gameplay.rs.                                        *)
(*                                                                         *)
(* One frame of the engine is: the state transitions requested in the     *)
(* previous frame are applied with their OnExit/OnEnter handlers (phase   *)
(* "trans"), the frame's input reaches the systems (phase "input"), every *)
(* Update system whose screen condition holds runs once, in an order the  *)
(* engine is free to choose (phase "update"), and the commands the        *)
(* systems deferred are applied (EndFrame).  Background jobs resolve at   *)
(* any moment.                                                             *)
(*                                                                         *)
(* The body of one prop job, generate_prop of generate/generate_model.rs  *)
(* (preview task, refine task, downloads, the two files), is followed     *)
(* step by step in the variable pipe under the specification PropSpec.    *)
(* The bodies of the ground and sky jobs (generate_ground.rs,              *)
(* generate_sky.rs, image/openai.rs) are followed in the variable image   *)
(* under ImageSpec, and one such job followed by prop jobs under          *)
(* JobsSpec.  Where a generated prop is placed (the variable place) is    *)
(* followed under PlaceSpec, in which the player moves, and the height    *)
(* adjustment of a spawned prop (the variable scene) under AdjustSpec.    *)
(* LoadFairSpec adds to FairSpec that every asset load finishes.          *)
(* The sky conversion convert_to_ktx2 (crop, cubemap faces, bilinear      *)
(* samples) is followed in the variable sky under SkySpec, the ground     *)
(* entity of the level in the variable ground under GroundSpec, and the   *)
(* prop prompt with the pause keys in the variable ui under UiSpec.       *)
(***************************************************************************)
EXTENDS Integers, FiniteSets, Sequences, TLC

\* ------------------------------------------------------------- bounds
MaxSessions == 3   \* level-load sessions (entries of the loading screen)
MaxProps == 2      \* prop jobs submitted over a run
MaxFaults == 2     \* jobs that return Err and asset loads that fail, over a run
MaxPolls == 2      \* "still running" answers of one poll loop that are counted
MaxRuns == 2       \* generate_prop calls followed step by step
MaxNodes == 2      \* descendants of the prop root whose scene is followed
MaxFall == 2       \* units a prop root is moved by physics
MaxSide == 3       \* small panoramas: heights up to MaxSide + 1
Grid == 4          \* sample coordinates u, v in steps of 1 / Grid
MaxProbes == 8     \* ground positions probed along each axis of the mesh
MaxReruns == 2     \* adjustment ticks counted on an adjusted prop

\* ---------------------------------------------------------- vocabulary
Kinds == {"Ground", "Sky"}
Texts == {"", "a"}                     \* submitted prompt texts; "" is blank
JobStates == {"idle", "running", "ok", "err", "taken", "dropped"}

GenTask(k, s) == [t |-> "gen", k |-> k, n |-> s]
PropTask(i) == [t |-> "prop", k |-> "Prop", n |-> i]
Placeholder(i) == [t |-> "ph", k |-> "Prop", n |-> i]
PropRoot(i) == [t |-> "root", k |-> "Prop", n |-> i]

GenTasks == {GenTask(k, s) : k \in Kinds, s \in 1..MaxSessions}
PropTasks == {PropTask(i) : i \in 1..MaxProps}
TaskEnts == GenTasks \cup PropTasks

\* Asset handles.  A handle obtained from a path names that path (the asset
\* server hands out the same handle for a path that is still alive); a
\* material added to Assets<StandardMaterial> is a fresh handle, named here
\* by the session of the job it was built for.
Handle(h, n) == [h |-> h, n |-> n]
MusicH == Handle("music", 0)
DefaultSpecularH == Handle("default_specular", 0)
DefaultDiffuseH == Handle("default_diffuse", 0)
DefaultGroundMatH == Handle("material", 0)
GroundTexH == Handle("textures/generated/ground.png", 0)
SkyTexH == Handle("cubemaps/generated/sky.ktx2", 0)
NoH == Handle("-", 0)
PathAssets == {MusicH, DefaultSpecularH, DefaultDiffuseH, GroundTexH, SkyTexH}

Pending == [tag |-> "Pending", material |-> NoH, texture |-> NoH]
InProgress == [tag |-> "InProgress", material |-> NoH, texture |-> NoH]
Succeeded(m, x) == [tag |-> "Succeeded", material |-> m, texture |-> x]
Failed == [tag |-> "Failed", material |-> NoH, texture |-> NoH]

VARIABLES
    screen,      \* State<Screen>
    nextScreen,  \* NextState<Screen>: "Unchanged" or the pending screen
    nextMenu,    \* NextState<Menu>: "Unchanged" or the pending menu
    prompt,      \* GenerationPrompt
    progress,    \* GenerationProgress: kind -> GenerationStatus
    assets,      \* ProceduralLevelAssets (the handles the flow writes)
    loadState,   \* the asset server's load state of each path asset
    entities,    \* live entities: job entities, placeholders, prop roots
    cmds,        \* commands deferred by this frame's Update systems
    job,         \* the background computation behind each job entity
    uiOpen,      \* ModelPromptUiState.root.is_some()
    phase,       \* position in the frame
    ran,         \* the Update systems that have run in this frame
    keys,        \* keys just pressed in this frame
    events,      \* Events<TextInputSubmitEvent> of this frame: texts
    session,     \* number of level-load sessions started
    nprops,      \* number of prop jobs submitted
    panicked,    \* history: a finished-and-consumed task was polled again
    signals,     \* history: ticks of this session that requested each screen
    order,       \* history: order in which this session's kinds succeeded
    faults,      \* history: failures the environment has produced so far
    born,        \* history: the session in which each prop job was submitted
    adjusted,    \* the prop roots whose GeneratedPropRoot.adjusted is true
    place,       \* the player's pose and the SpawnLocation of each prop
    scene,       \* one prop root and its descendants (height adjustment)
    image,       \* one ground or sky job (generate_*_texture), step by step
    sky,         \* one convert_to_ktx2 call: panorama, cubemap, a sample
    ground,      \* the Ground entity's mesh and collider, and a probe of them
    ui,          \* the prop prompt, Menu and Pause on the gameplay screen
    pipe         \* one generate_prop call (generate_model.rs), step by step

vars == <<screen, nextScreen, nextMenu, prompt, progress, assets, loadState,
          entities, cmds, job, uiOpen, phase, ran, keys, events, session,
          nprops, panicked, signals, order, faults, born, adjusted, place,
          scene, image, sky, ground, ui, pipe>>

\* The variables that follow one job or one prop in detail; the frame loop
\* leaves them alone.
detail == <<pipe, scene, image, sky, ground, ui>>

hist == <<panicked, signals, order>>

\* ------------------------------------------------------- asset server
\* AssetServer::get_load_state: None for a handle the server does not track.
GetLoadState(ls, h) == IF h \in DOMAIN ls THEN ls[h] ELSE "None"

\* AssetServer::load(path): an untracked or failed path starts loading; a
\* path that is loading or loaded keeps its state and its handle.
Load(ls, h) ==
    [ls EXCEPT ![h] = IF @ \in {"None", "Failed"} THEN "Loading" ELSE @]

\* ----------------------------------------------------------- placement
\* A pose is the part of a GlobalTransform that placement reads: the
\* translation and the forward direction, in whole units.  A player is
\* spawned with the identity GlobalTransform; transform propagation and the
\* player's movement give it other poses.
Pose(x, z, fx, fz) == [x |-> x, z |-> z, fx |-> fx, fz |-> fz]
GlobalTransformDefault == Pose(0, 0, 0, -1)
PlayerPoses == {GlobalTransformDefault, Pose(-30, 2, 1, 0)}

\* The terrain height query of the level at (x, z): a fixed function of the
\* coordinates.
sample_terrain_height(x, z) == (x + 2 * z) % 5

Translation(x, y, z) == [x |-> x, y |-> y, z |-> z]
SpawnLocation(t, g) == [there |-> TRUE, transform |-> t, ground_height |-> g]

\* No task i, or no root i: nothing is stored.
NoLocation ==
    [there |-> FALSE, transform |-> Translation(0, 0, 0), ground_height |-> 0]

\* predicted_spawn_location: two units ahead of the first player (the
\* origin without a player), at the terrain height there.
predicted_spawn_location(players) ==
    LET target == IF players = {} THEN [x |-> 0, z |-> 0]
                  ELSE LET p == CHOOSE q \in players : TRUE
                       IN [x |-> p.x + p.fx * 2, z |-> p.z + p.fz * 2]
        ground_height == sample_terrain_height(target.x, target.z)
    IN SpawnLocation(Translation(target.x, ground_height, target.z),
                     ground_height)

NoPlace ==
    [players |-> {},
     spawn_location |-> [i \in 1..MaxProps |-> NoLocation],
     root |-> [i \in 1..MaxProps |-> NoLocation]]

\* ---------------------------------------------------------------- Init
\* After App construction: GenerationProgress::default(), the resources of
\* ProceduralLevelAssets::from_world (its path assets requested), Title.
GenerationProgressDefault == [k \in Kinds |-> Pending]

ProceduralLevelAssetsFromWorld ==
    [ground_material |-> DefaultGroundMatH,
     env_map_specular |-> DefaultSpecularH,
     env_map_diffuse |-> DefaultDiffuseH,
     music |-> MusicH]

NoSignals == "none"

InitApp ==
    /\ screen = "Title"
    /\ nextScreen = "Unchanged"
    /\ nextMenu = "Unchanged"
    /\ prompt = ""
    /\ progress = GenerationProgressDefault
    /\ assets = ProceduralLevelAssetsFromWorld
    /\ loadState = [h \in PathAssets |->
                      IF h \in {MusicH, DefaultSpecularH, DefaultDiffuseH}
                      THEN "Loading" ELSE "None"]
    /\ entities = {}
    /\ cmds = {}
    /\ job = [e \in TaskEnts |-> "idle"]
    /\ uiOpen = FALSE
    /\ phase = "trans"
    /\ ran = {}
    /\ keys = {}
    /\ events = <<>>
    /\ session = 0
    /\ nprops = 0
    /\ panicked = FALSE
    /\ signals = NoSignals
    /\ order = "none"
    /\ born = [i \in 1..MaxProps |-> 0]
    /\ adjusted = {}
    /\ place = NoPlace

\* The environment may still produce MaxFaults failures.
InitGame == InitApp /\ faults = 0

\* No generate_prop call is followed: the prop job is its JobResolveOf.
NoPayload ==
    [http |-> "none", status |-> "", failure_reason |-> "absent",
     message |-> "absent", glb |-> FALSE]

NoResult == [tag |-> "none"]

PipeIdle ==
    [run |-> 0, pc |-> "idle", polls |-> 0, log |-> <<>>, last |-> NoPayload,
     result |-> NoResult, files |-> {}]

\* No prop root is followed through its height adjustment.
NoScene ==
    [stage |-> "none", y |-> 0, ground_height |-> 0, adjusted |-> FALSE,
     nodes |-> <<>>, fallen |-> 0, reruns |-> 0]

\* No ground or sky job is followed.
NoImages == [tag |-> "none", images |-> <<>>, error |-> "none"]

ImageIdle ==
    [run |-> 0, kind |-> "none", pc |-> "idle", log |-> <<>>,
     generated |-> NoImages, bytes |-> "none", result |-> NoResult,
     written |-> {}]

\* No panorama is being converted.
NoPanorama ==
    [pc |-> "idle", input |-> [width |-> 0, height |-> 0, pat |-> "none"],
     image |-> [width |-> 0, height |-> 0, pat |-> "none"],
     face_size |-> 0, face_pixels |-> 0,
     texture |-> [width |-> 0, height |-> 0, faces |-> 0, set |-> {}],
     face |-> 0, samples |-> 0,
     sample |-> [x0 |-> 0, y0 |-> 0, x1 |-> 0, y1 |-> 0, panic |-> FALSE,
                 result |-> 0]]

\* The level has not been spawned.
NoGround ==
    [spawned |-> FALSE,
     mesh |-> [half_x |-> 0, half_z |-> 0, y |-> 0],
     collider |-> [half_x |-> 0, half_z |-> 0, top |-> 0],
     probes |-> 0, at |-> [x |-> 0, z |-> 0],
     on_mesh |-> FALSE, on_collider |-> FALSE,
     mesh_height |-> 0, collider_height |-> 0, query_height |-> 0]

\* The gameplay screen as it is entered: ModelPromptUiState::default(), no
\* menu, not paused; a crosshair may exist, and something else may block
\* the input.
UiClosed(crosshair, blocks) ==
    [screen |-> "ProceduralGameplay", menu |-> "None", pause |-> FALSE,
     next_screen |-> "Unchanged", next_menu |-> "Unchanged",
     next_pause |-> "Unchanged",
     root |-> FALSE, paused_game |-> FALSE, blocked_input |-> FALSE,
     blocks_input |-> blocks, crosshair |-> crosshair,
     wants_free_cursor |-> {}, overlay |-> FALSE,
     phase |-> "input", keys |-> {}, event |-> "none", ran |-> {},
     cond |-> "unevaluated", was_open |-> FALSE, was_paused_game |-> FALSE]

\* A specification follows the detail variables it names and leaves the
\* others at Unfollowed, which no action reads or changes.
Unfollowed == [pc |-> "off"]

InitDetail(followed) ==
    /\ pipe = IF "pipe" \in followed THEN PipeIdle ELSE Unfollowed
    /\ scene = IF "scene" \in followed THEN NoScene ELSE Unfollowed
    /\ image = IF "image" \in followed THEN ImageIdle ELSE Unfollowed
    /\ sky = IF "sky" \in followed THEN NoPanorama ELSE Unfollowed
    /\ ground = IF "ground" \in followed THEN NoGround ELSE Unfollowed
    /\ IF "ui" \in followed
       THEN \E c \in BOOLEAN, b \in SUBSET {"other"} : ui = UiClosed(c, b)
       ELSE ui = Unfollowed

Init == InitGame /\ InitDetail({})

UiInit == InitGame /\ InitDetail({"ui"})

\* Deferred commands.
Despawn(e) == [op |-> "despawn", e |-> e]
Spawn(e) == [op |-> "spawn", e |-> e]

\* ------------------------------------------------------- environment
\* The Task handle of job entity e is held: the entity is alive, or its
\* spawn command is still queued.
HandleHeld(e) == e \in entities \/ Spawn(e) \in cmds

\* The job writing its kind's status itself when it returns.
JobResolveOf_WritesStatus(e) ==
    \E r \in {"ok", "err"} :
        /\ job[e] = "running"
        /\ r = "err" => faults < MaxFaults
        /\ job' = [job EXCEPT ![e] = r]
        /\ faults' = IF r = "err" THEN faults + 1 ELSE faults
        /\ progress' = IF e.t = "gen" /\ r = "err"
                       THEN [progress EXCEPT ![e.k] = Failed]
                       ELSE progress
        /\ UNCHANGED <<screen, nextScreen, nextMenu, prompt, assets,
                       loadState, entities, cmds, uiOpen, phase, ran, keys,
                       events, session, nprops, hist, born, adjusted,
                       place, detail>>

\* A background job (generate_ground_texture, generate_sky_texture or
\* generate_prop on the IoTaskPool) returns Ok or Err.  It runs to its end
\* whether or not its Task handle is still held; the result of a job whose
\* handle was dropped with its entity is dropped.
JobResolveOf(e) ==
    \E r \in {"ok", "err"} :
        LET res == IF HandleHeld(e) THEN r ELSE "dropped"
        IN /\ job[e] = "running"
           /\ res = "err" => faults < MaxFaults
           /\ job' = [job EXCEPT ![e] = res]
           /\ faults' = IF res = "err" THEN faults + 1 ELSE faults
           /\ UNCHANGED <<screen, nextScreen, nextMenu, prompt, progress,
                          assets, loadState, entities, cmds, uiOpen, phase,
                          ran, keys, events, session, nprops, hist, born,
                          adjusted, place, detail>>

JobResolve == \E e \in TaskEnts : JobResolveOf(e)

\* The asset server finishes a load; load states change between frames.
\* The loads of the two default environment maps are not followed to their
\* end: both handles are replaced by the sky texture before any system
\* reads their load state.
AssetLoadFinish ==
    \E h \in PathAssets \ {DefaultSpecularH, DefaultDiffuseH},
       r \in {"Loaded", "Failed"} :
        /\ phase = "trans"
        /\ loadState[h] = "Loading"
        /\ r = "Failed" => faults < MaxFaults
        /\ loadState' = [loadState EXCEPT ![h] = r]
        /\ faults' = IF r = "Failed" THEN faults + 1 ELSE faults
        /\ UNCHANGED <<screen, nextScreen, nextMenu, prompt, progress, assets,
                       entities, cmds, job, uiOpen, phase, ran, keys, events,
                       session, nprops, hist, born, adjusted, place,
                       detail>>

\* A TextInput entity exists in the Generate menu (spawn_generate_menu; the
\* menu is open on the title screen only) and in the in-gameplay prop
\* prompt that was open when the frame began.
TextInputExists ==
    \/ screen = "Title"
    \/ screen = "ProceduralGameplay" /\ uiOpen

\* The frame's input: keys just pressed (read by the gameplay systems),
\* and at most one text submitted to a TextInput (TextInputSystem, which
\* listener and submit_model_prompt are ordered after).
Input ==
    /\ UNCHANGED <<faults, born, adjusted, place, detail>>
    /\ phase = "input"
    /\ \E ks \in SUBSET {"M", "Esc"}, ev \in {<<>>} \cup {<<t>> : t \in Texts} :
        /\ ks # {} => screen = "ProceduralGameplay"
        /\ ev # <<>> =>
            /\ TextInputExists
            /\ session < MaxSessions
            /\ (screen = "ProceduralGameplay" /\ ev[1] # "") => nprops < MaxProps
        /\ keys' = ks
        /\ events' = ev
    /\ phase' = "update"
    /\ UNCHANGED <<screen, nextScreen, nextMenu, prompt, progress, assets,
                   loadState, entities, cmds, job, uiOpen, ran, session,
                   nprops, hist>>

\* ------------------------------------------------- state transitions
\* start_generation_tasks, with its commands applied at the end of OnEnter:
\* every existing GenerationTask entity is despawned (an unpolled result is
\* dropped with its Task), both statuses become InProgress, and one job per
\* kind is spawned for the new session.
ExistingTasks_None(ents) == {}
ExistingTasks_FinishedOnly(ents) == {e \in ents : e.t = "gen" /\ job[e] # "running"}

ExistingTasks(ents) == {e \in ents : e.t = "gen"}

start_generation_tasks(st) ==
    LET s == st.session + 1
        new == {GenTask(k, s) : k \in Kinds}
    IN [st EXCEPT
          !.entities = (@ \ ExistingTasks(st.entities)) \cup new,
          !.progress = [k \in Kinds |-> InProgress],
          !.job = [e \in TaskEnts |->
                     IF e \in new THEN "running"
                     ELSE IF e \in ExistingTasks(st.entities)
                             /\ @[e] \in {"ok", "err"}
                          THEN "dropped"
                          ELSE @[e]],
          !.session = s]

\* Leaving the loading screen without the reset.
reset_generation_progress_Keeps(st) == st

\* reset_generation_progress (OnExit(Screen::ProceduralLoading)).
reset_generation_progress(st) ==
    [st EXCEPT !.progress = GenerationProgressDefault]

\* OnExit(Screen::ProceduralGameplay): close_menu, unpause,
\* cleanup_model_prompt, and the despawn of the StateScoped entities.
StateScopedGameplay(ents) == {e \in ents : e.t \in {"ph", "root"}}

OnExitProceduralGameplay(st) ==
    [st EXCEPT !.uiOpen = FALSE,
               !.nextMenu = "None",
               !.entities = @ \ StateScopedGameplay(st.entities),
               !.place.players = {},
               !.place.root = NoPlace.root]

\* spawn_procedural_level (OnEnter(Screen::ProceduralGameplay)), as far as
\* the player it spawns.
spawn_procedural_level(st) ==
    [st EXCEPT !.place.players = {GlobalTransformDefault}]

OnExit(from, st) ==
    CASE from = "ProceduralLoading" -> reset_generation_progress(st)
      [] from = "ProceduralGameplay" -> OnExitProceduralGameplay(st)
      [] OTHER -> st

OnEnter(to, st) ==
    CASE to = "ProceduralLoading" -> start_generation_tasks(st)
      [] to = "ProceduralGameplay" -> spawn_procedural_level(st)
      [] OTHER -> st

\* The StateTransition schedule: the pending Menu is taken, and a pending
\* Screen different from the current one runs OnExit then OnEnter (a pending
\* state equal to the current one runs neither).
StateTransition ==
    /\ UNCHANGED <<faults, born, detail>>
    /\ phase = "trans"
    /\ LET st0 == [entities |-> entities, progress |-> progress, job |-> job,
                   session |-> session, uiOpen |-> uiOpen,
                   nextMenu |-> "Unchanged", place |-> place]
           moves == nextScreen # "Unchanged" /\ nextScreen # screen
           st1 == IF moves THEN OnEnter(nextScreen, OnExit(screen, st0))
                  ELSE st0
       IN /\ screen' = IF moves THEN nextScreen ELSE screen
          /\ entities' = st1.entities
          /\ progress' = st1.progress
          /\ job' = st1.job
          /\ session' = st1.session
          /\ uiOpen' = st1.uiOpen
          /\ nextMenu' = st1.nextMenu
          /\ place' = st1.place
          /\ signals' = IF moves /\ nextScreen = "ProceduralLoading"
                        THEN NoSignals ELSE signals
          /\ order' = IF moves /\ nextScreen = "ProceduralLoading"
                      THEN "none" ELSE order
    /\ adjusted' = {n \in adjusted : PropRoot(n) \in entities'}
    /\ nextScreen' = "Unchanged"
    /\ phase' = "input"
    /\ UNCHANGED <<prompt, assets, loadState, cmds, ran, keys, events, nprops,
                   panicked>>

\* ------------------------------------------------------ Update systems
\* The Update systems that run in a screen (their in_state run conditions);
\* listener has no run condition.
SystemsFor(scr) ==
    {"listener"}
    \cup (IF scr = "ProceduralLoading"
          THEN {"monitor_generation_tasks",
                "advance_to_procedural_gameplay_screen"} ELSE {})
    \cup (IF scr = "ProceduralGameplay"
          THEN {"toggle_model_prompt", "submit_model_prompt",
                "monitor_model_generation_tasks",
                "adjust_generated_prop_height"} ELSE {})

Runs(sys) ==
    /\ phase = "update"
    /\ sys \in SystemsFor(screen) \ ran
    /\ ran' = ran \cup {sys}
    /\ phase' = phase

PollOnce_PendingIsErr(j) == IF j = "ok" THEN "ok" ELSE "err"

\* future::poll_once on a task: Some(result) once the job has returned,
\* None while it runs.
PollOnce(j) == IF j \in {"ok", "err"} THEN j ELSE "none"

\* All orders in which a query may yield the entities of S.
Orders(S) ==
    {q \in [1..Cardinality(S) -> S] : \A i, j \in 1..Cardinality(S) :
                                         q[i] = q[j] => i = j}

\* listener (menus/generate.rs): every submitted text becomes the
\* generation prompt and requests the loading screen.
listener ==
    /\ UNCHANGED <<faults, born, adjusted, place, detail>>
    /\ Runs("listener")
    /\ IF events # <<>>
       THEN /\ prompt' = events[Len(events)]
            /\ nextScreen' = "ProceduralLoading"
       ELSE UNCHANGED <<prompt, nextScreen>>
    /\ UNCHANGED <<screen, nextMenu, progress, assets, loadState, entities,
                   cmds, job, uiOpen, keys, events, session, nprops, hist>>

\* The match with the Err arms only logging the error.
RouteResult_ErrOnlyLogged(e, r, st) ==
    CASE e.k = "Ground" /\ r = "ok" ->
           LET material == Handle("material", e.n)
           IN [st EXCEPT
                 !.loadState = Load(@, GroundTexH),
                 !.assets.ground_material = material,
                 !.progress["Ground"] = Succeeded(material, GroundTexH)]
      [] e.k = "Sky" /\ r = "ok" ->
           [st EXCEPT
              !.loadState = Load(@, SkyTexH),
              !.assets.env_map_specular = SkyTexH,
              !.assets.env_map_diffuse = SkyTexH,
              !.progress["Sky"] = Succeeded(NoH, SkyTexH)]
      [] OTHER -> st

\* The match with the Sky Err arm writing the ground status.
RouteResult_SkyErrHitsGround(e, r, st) ==
    CASE e.k = "Ground" /\ r = "ok" ->
           LET material == Handle("material", e.n)
           IN [st EXCEPT
                 !.loadState = Load(@, GroundTexH),
                 !.assets.ground_material = material,
                 !.progress["Ground"] = Succeeded(material, GroundTexH)]
      [] e.k = "Sky" /\ r = "ok" ->
           [st EXCEPT
              !.loadState = Load(@, SkyTexH),
              !.assets.env_map_specular = SkyTexH,
              !.assets.env_map_diffuse = SkyTexH,
              !.progress["Sky"] = Succeeded(NoH, SkyTexH)]
      [] e.k = "Ground" /\ r = "err" ->
           [st EXCEPT !.progress["Ground"] = Failed]
      [] e.k = "Sky" /\ r = "err" ->
           [st EXCEPT !.progress["Ground"] = Failed]

\* The match with the Sky Ok arm rebuilding the container from its defaults.
RouteResult_SkyResetsAssets(e, r, st) ==
    CASE e.k = "Ground" /\ r = "ok" ->
           LET material == Handle("material", e.n)
           IN [st EXCEPT
                 !.loadState = Load(@, GroundTexH),
                 !.assets.ground_material = material,
                 !.progress["Ground"] = Succeeded(material, GroundTexH)]
      [] e.k = "Sky" /\ r = "ok" ->
           [st EXCEPT
              !.loadState = Load(@, SkyTexH),
              !.assets = [ProceduralLevelAssetsFromWorld EXCEPT
                            !.env_map_specular = SkyTexH,
                            !.env_map_diffuse = SkyTexH],
              !.progress["Sky"] = Succeeded(NoH, SkyTexH)]
      [] e.k = "Ground" /\ r = "err" ->
           [st EXCEPT !.progress["Ground"] = Failed]
      [] e.k = "Sky" /\ r = "err" ->
           [st EXCEPT !.progress["Sky"] = Failed]

\* The match with the Ground Err arm requesting the texture all the same.
RouteResult_GroundErrLoadsTexture(e, r, st) ==
    CASE e.k = "Ground" /\ r = "ok" ->
           LET material == Handle("material", e.n)
           IN [st EXCEPT
                 !.loadState = Load(@, GroundTexH),
                 !.assets.ground_material = material,
                 !.progress["Ground"] = Succeeded(material, GroundTexH)]
      [] e.k = "Sky" /\ r = "ok" ->
           [st EXCEPT
              !.loadState = Load(@, SkyTexH),
              !.assets.env_map_specular = SkyTexH,
              !.assets.env_map_diffuse = SkyTexH,
              !.progress["Sky"] = Succeeded(NoH, SkyTexH)]
      [] e.k = "Ground" /\ r = "err" ->
           [st EXCEPT !.loadState = Load(@, GroundTexH),
                      !.progress["Ground"] = Failed]
      [] e.k = "Sky" /\ r = "err" ->
           [st EXCEPT !.progress["Sky"] = Failed]

\* The match of monitor_generation_tasks on (kind, result), for one
\* finished task e; st carries progress, assets and loadState.
RouteResult(e, r, st) ==
    CASE e.k = "Ground" /\ r = "ok" ->
           LET material == Handle("material", e.n)
           IN [st EXCEPT
                 !.loadState = Load(@, GroundTexH),
                 !.assets.ground_material = material,
                 !.progress["Ground"] = Succeeded(material, GroundTexH)]
      [] e.k = "Sky" /\ r = "ok" ->
           [st EXCEPT
              !.loadState = Load(@, SkyTexH),
              !.assets.env_map_specular = SkyTexH,
              !.assets.env_map_diffuse = SkyTexH,
              !.progress["Sky"] = Succeeded(NoH, SkyTexH)]
      [] e.k = "Ground" /\ r = "err" ->
           [st EXCEPT !.progress["Ground"] = Failed]
      [] e.k = "Sky" /\ r = "err" ->
           [st EXCEPT !.progress["Sky"] = Failed]

RECURSIVE RouteAll(_, _, _)
RouteAll(q, i, st) ==
    IF i > Len(q) THEN st
    ELSE RouteAll(q, i + 1, RouteResult(q[i], PollOnce(job[q[i]]), st))

SucceededKinds(pr) == {k \in Kinds : pr[k].tag = "Succeeded"}

NextOrder(o, before, after) ==
    LET new == after \ before
    IN CASE new = {} -> o
         [] new = Kinds -> "same_tick"
         [] new = {"Ground"} -> IF "Sky" \in before THEN "sky_first" ELSE "ground"
         [] new = {"Sky"} -> IF "Ground" \in before THEN "ground_first" ELSE "sky"

\* The entities a tick of monitor_generation_tasks finds finished.
Finished(polled) == {e \in polled : PollOnce(job[e]) # "none"}

DespawnFinished_None(done) == {}

\* commands.entity(entity).despawn() for each finished task.
DespawnFinished(done) == {Despawn(e) : e \in done}

\* monitor_generation_tasks: poll every GenerationTask entity once; a
\* finished one is despawned (deferred) and its result routed.
monitor_generation_tasks ==
    /\ UNCHANGED <<faults, born, adjusted, place, detail>>
    /\ Runs("monitor_generation_tasks")
    /\ LET polled == {e \in entities : e.t = "gen"}
           done == Finished(polled)
       IN /\ \E q \in Orders(done) :
                LET st == RouteAll(q, 1, [progress |-> progress,
                                           assets |-> assets,
                                           loadState |-> loadState])
                IN /\ progress' = st.progress
                   /\ assets' = st.assets
                   /\ loadState' = st.loadState
                   /\ order' = NextOrder(order, SucceededKinds(progress),
                                         SucceededKinds(st.progress))
          /\ cmds' = cmds \cup DespawnFinished(done)
          /\ job' = [e \in TaskEnts |-> IF e \in done THEN "taken" ELSE job[e]]
          /\ panicked' = (panicked \/ \E e \in polled : job[e] = "taken")
    /\ UNCHANGED <<screen, nextScreen, nextMenu, prompt, entities, uiOpen,
                   keys, events, session, nprops, signals>>

SomeFailedOf(pr) == \E k \in Kinds : pr[k].tag = "Failed"

\* The load states advance_to_procedural_gameplay_screen reads.
GateStates ==
    LET g == progress["Ground"]
        s == progress["Sky"]
    IN <<GetLoadState(loadState, assets.music),
         GetLoadState(loadState, assets.env_map_specular),
         GetLoadState(loadState, assets.env_map_diffuse),
         GetLoadState(loadState, g.material),
         GetLoadState(loadState, g.texture),
         GetLoadState(loadState, s.texture)>>

AllLoaded_NoCheck(states) == TRUE

AnyFailed_NoneIsFailure(states) ==
    \E i \in DOMAIN states : states[i] \notin {"Loaded", "Loading"}

AnyFailed(states) == \E i \in DOMAIN states : states[i] = "Failed"

\* all_loaded without the state.is_none() alternative.
AllLoaded_LoadedOnly(states) == \A i \in DOMAIN states : states[i] = "Loaded"

AllLoaded(states) == \A i \in DOMAIN states : states[i] \in {"Loaded", "None"}

\* The gate with the fallback taken only once neither kind is still
\* running.
Decision_WaitsForBoth ==
    CASE SomeFailedOf(progress) /\ \A k \in Kinds : progress[k].tag # "InProgress" ->
           <<"Title", "Main">>
      [] progress["Ground"].tag = "Succeeded" /\ progress["Sky"].tag = "Succeeded" ->
           IF AnyFailed(GateStates) THEN <<"Title", "Main">>
           ELSE IF AllLoaded(GateStates) THEN <<"ProceduralGameplay", "Unchanged">>
           ELSE <<"Unchanged", "Unchanged">>
      [] OTHER -> <<"Unchanged", "Unchanged">>

\* What advance_to_procedural_gameplay_screen requests: the pair
\* <<next screen, next menu>>, "Unchanged" where it sets nothing.
Decision ==
    CASE progress["Ground"].tag = "Failed" \/ progress["Sky"].tag = "Failed" ->
           <<"Title", "Main">>
      [] progress["Ground"].tag = "Succeeded" /\ progress["Sky"].tag = "Succeeded" ->
           IF AnyFailed(GateStates) THEN <<"Title", "Main">>
           ELSE IF AllLoaded(GateStates) THEN <<"ProceduralGameplay", "Unchanged">>
           ELSE <<"Unchanged", "Unchanged">>
      [] OTHER -> <<"Unchanged", "Unchanged">>

\* History of the screens requested in the ticks of one session.
Signalled(sig, target) == IF sig = "none" THEN target ELSE "again"

advance_to_procedural_gameplay_screen ==
    /\ UNCHANGED <<faults, born, adjusted, place, detail>>
    /\ Runs("advance_to_procedural_gameplay_screen")
    /\ LET d == Decision
       IN /\ nextScreen' = IF d[1] # "Unchanged" THEN d[1] ELSE nextScreen
          /\ nextMenu' = IF d[2] # "Unchanged" THEN d[2] ELSE nextMenu
          /\ signals' = IF d[1] # "Unchanged" THEN Signalled(signals, d[1])
                        ELSE signals
    /\ UNCHANGED <<screen, prompt, progress, assets, loadState, entities, cmds,
                   job, uiOpen, keys, events, session, nprops, panicked, order>>

\* The end of the Update schedule: deferred commands are applied and the
\* frame's input is cleared.
ApplyDeferred(ents, cs) ==
    (ents \ {c.e : c \in {x \in cs : x.op = "despawn"}})
    \cup {c.e : c \in {x \in cs : x.op = "spawn"}}

EndFrame ==
    /\ UNCHANGED <<faults, born, adjusted, place, detail>>
    /\ phase = "update"
    /\ ran = SystemsFor(screen)
    /\ entities' = ApplyDeferred(entities, cmds)
    /\ cmds' = {}
    /\ ran' = {}
    /\ keys' = {}
    /\ events' = <<>>
    /\ phase' = "trans"
    /\ UNCHANGED <<screen, nextScreen, nextMenu, prompt, progress, assets,
                   loadState, job, uiOpen, session, nprops, hist>>

\* ------------------------------------------------- in-gameplay props
\* open_model_prompt_ui / close_model_prompt_ui, as far as the prompt root.
open_model_prompt_ui(open) == TRUE
close_model_prompt_ui(open) == FALSE

\* toggle_model_prompt: M opens a closed prompt, Escape closes an open one.
toggle_model_prompt ==
    /\ UNCHANGED <<faults, born, adjusted, place, detail>>
    /\ Runs("toggle_model_prompt")
    /\ uiOpen' = IF ~uiOpen /\ "M" \in keys THEN open_model_prompt_ui(uiOpen)
                 ELSE IF uiOpen /\ "Esc" \in keys
                      THEN close_model_prompt_ui(uiOpen)
                      ELSE uiOpen
    /\ UNCHANGED <<screen, nextScreen, nextMenu, prompt, progress, assets,
                   loadState, entities, cmds, job, keys, events, session,
                   nprops, hist>>

\* str::trim of the submitted text, over Texts.
Trim(t) == t

\* submit_model_prompt: with the prompt open, the first non-blank submitted
\* text starts a prop job with its placeholder (both spawned by deferred
\* commands) and closes the prompt.
submit_model_prompt ==
    /\ UNCHANGED <<faults, adjusted, detail>>
    /\ Runs("submit_model_prompt")
    /\ IF uiOpen /\ \E i \in DOMAIN events : Trim(events[i]) # ""
       THEN LET id == nprops + 1
            IN /\ nprops' = id
               /\ job' = [job EXCEPT ![PropTask(id)] = "running"]
               /\ cmds' = cmds \cup {Spawn(Placeholder(id)), Spawn(PropTask(id))}
               /\ uiOpen' = close_model_prompt_ui(uiOpen)
               /\ born' = [born EXCEPT ![id] = session]
               /\ place' = [place EXCEPT !.spawn_location[id] =
                                predicted_spawn_location(place.players)]
       ELSE UNCHANGED <<nprops, job, cmds, uiOpen, born, place>>
    /\ UNCHANGED <<screen, nextScreen, nextMenu, prompt, progress, assets,
                   loadState, entities, keys, events, session, hist>>

\* spawn_generated_model: the commands that splice one prop root.
spawn_generated_model(e) == {Spawn(PropRoot(e.n))}

\* The despawn of the placeholder and of the task entity of each finished
\* prop task.
DespawnResolved(done) ==
    {Despawn(Placeholder(e.n)) : e \in done} \cup {Despawn(e) : e \in done}

OkResults_All(done) == done

\* The Ok arm held back while another prop job is still running.
OkResults_WhenAllDone(done) ==
    IF \E e \in entities : e.t = "prop" /\ job[e] = "running" THEN {}
    ELSE {x \in done : PollOnce(job[x]) = "ok"}

\* The Ok arm of the match on a finished prop task's result.
OkResults(done) == {x \in done : PollOnce(job[x]) = "ok"}

\* The placement recomputed from the players when the job completes.
SplicedLocation_AtCompletion(task_location, players) ==
    predicted_spawn_location(players)

\* The SpawnLocation spawn_generated_model gives the prop root: the clone
\* of the one stored in the task.
SplicedLocation(task_location, players) == task_location

\* monitor_model_generation_tasks: poll every ModelGenerationTask entity
\* once; a finished one has its placeholder and itself despawned
\* (deferred), and an Ok result splices the prop.
monitor_model_generation_tasks ==
    /\ UNCHANGED <<faults, born, adjusted, detail>>
    /\ Runs("monitor_model_generation_tasks")
    /\ LET polled == {e \in entities : e.t = "prop"}
           done == Finished(polled)
       IN /\ cmds' = cmds
                \cup DespawnResolved(done)
                \cup UNION {spawn_generated_model(e) : e \in OkResults(done)}
          /\ job' = [e \in TaskEnts |-> IF e \in done THEN "taken" ELSE job[e]]
          /\ panicked' = (panicked \/ \E e \in polled : job[e] = "taken")
          /\ place' = [place EXCEPT !.root =
                          [i \in 1..MaxProps |->
                             IF PropTask(i) \in OkResults(done)
                             THEN SplicedLocation(place.spawn_location[i],
                                                  place.players)
                             ELSE @[i]]]
    /\ UNCHANGED <<screen, nextScreen, nextMenu, prompt, progress, assets,
                   loadState, entities, uiOpen, keys, events, session, nprops,
                   signals, order>>


Roots(ents) == {e.n : e \in {x \in ents : x.t = "root"}}

\* adjust_generated_prop_height, ordered after
\* monitor_model_generation_tasks: every prop root that is not adjusted
\* and under which a mesh is found (its scene has been instantiated) is
\* moved onto the ground and marked adjusted.  A root spliced in this frame
\* has no children yet.
adjust_generated_prop_height ==
    /\ Runs("adjust_generated_prop_height")
    /\ "monitor_model_generation_tasks" \in ran
    /\ \E found \in SUBSET (Roots(entities) \ adjusted) :
         adjusted' = adjusted \cup found
    /\ UNCHANGED <<screen, nextScreen, nextMenu, prompt, progress, assets,
                   loadState, entities, cmds, job, uiOpen, keys, events,
                   session, nprops, hist, faults, born, place, detail>>

\* ------------------------------------------- generate_prop, step by step
\* The body of one prop job (generate/generate_model.rs).  pipe.pc names the
\* statement the call is at; pipe.log is the sequence of the operations it
\* has issued on the mesh service and on storage and of the SUCCEEDED
\* statuses it has seen (the consecutive polls of one loop are logged once);
\* pipe.last is the payload of the latest status poll; pipe.files is the
\* storage, which outlives the call.
Stages == {"preview", "refine"}
TaskStatuses == {"SUCCEEDED", "FAILED", "PENDING", "IN_PROGRESS", "CANCELED", ""}
HttpOutcomes == {"ok", "send_err", "status_err", "bad_body"}

\* What a GET of the task status can bring: a failed request, or a JSON
\* payload with any status (a missing or non-string status reads as ""),
\* a failure_reason that is absent, not a string ("null") or a string, a
\* message, and a model_urls.glb that is there or not.
PollResponses ==
    {[NoPayload EXCEPT !.http = h] : h \in HttpOutcomes \ {"ok"}}
    \cup {[http |-> "ok", status |-> st, failure_reason |-> fr,
           message |-> m, glb |-> g] :
            st \in TaskStatuses, fr \in {"absent", "null", "quota"},
            m \in {"absent", "busy"}, g \in BOOLEAN}

Unspecified == "Meshy task failed for unspecified reason"

FailureReason_Generic(resp) == Unspecified

\* The reason of a FAILED payload: failure_reason if the key is there, else
\* message; the default text unless the value found is a string.
FailureReason(resp) ==
    IF resp.failure_reason # "absent"
    THEN (IF resp.failure_reason = "null" THEN Unspecified
          ELSE resp.failure_reason)
    ELSE IF resp.message # "absent" THEN resp.message ELSE Unspecified

PollVerdict_GivesUp(resp, polls) ==
    IF resp.http # "ok" THEN "error"
    ELSE IF resp.status = "SUCCEEDED" THEN "succeeded"
    ELSE IF resp.status = "FAILED" THEN "failed"
    ELSE IF polls >= MaxPolls THEN "error"
    ELSE "again"

\* One iteration of the loop of poll_task_until_finished.
PollVerdict(resp, polls) ==
    IF resp.http # "ok" THEN "error"
    ELSE IF resp.status = "SUCCEEDED" THEN "succeeded"
    ELSE IF resp.status = "FAILED" THEN "failed"
    ELSE "again"

\* The statements of generate_prop, in program order.
Program ==
    <<"setup", "create_preview", "poll_preview", "download_preview",
      "create_refine", "poll_refine", "download_refined", "create_dir",
      "write_preview", "write_refined", "returned">>

PcIndex(pc) == CHOOSE i \in DOMAIN Program : Program[i] = pc

NextPc_RefineAtOnce(pc) ==
    IF pc = "create_preview" THEN "create_refine"
    ELSE Program[PcIndex(pc) + 1]

NextPc(pc) == Program[PcIndex(pc) + 1]

\* Uuid::new_v4 for the call: an identifier no earlier call has used.
GenerationId(run) == run

PREVIEW_FILENAME == "preview.glb"
REFINED_FILENAME == "refined.glb"
GENERATED_MODEL_DIR == "models/generated"

\* The path generate_prop returns for a file, relative to the asset root,
\* and the path it writes the file to.
RelativePath(id, file) == <<GENERATED_MODEL_DIR, id, file>>
WrittenPath(id, file) == <<"assets">> \o RelativePath(id, file)

ErrAt(pc, why) == [tag |-> "Err", at |-> pc, reason |-> why]
OkPaths(id) ==
    [tag |-> "Ok",
     preview_path |-> RelativePath(id, PREVIEW_FILENAME),
     refined_path |-> RelativePath(id, REFINED_FILENAME)]

gameVars == <<screen, nextScreen, nextMenu, prompt, progress, assets,
              loadState, entities, cmds, job, uiOpen, phase, ran, keys,
              events, session, nprops, panicked, signals, order, faults,
              born, adjusted, place>>

\* The ? operator: an Err ends the call at once with that error.
Return(res) == [pipe EXCEPT !.pc = "returned", !.result = res]

Logged(op) == Append(pipe.log, op)

\* The task closure of submit_model_prompt calls generate_prop.
generate_prop ==
    /\ pipe.pc \in {"idle", "returned"}
    /\ pipe.run < MaxRuns
    /\ pipe' = [PipeIdle EXCEPT !.run = pipe.run + 1, !.pc = "setup",
                                !.files = pipe.files]
    /\ UNCHANGED <<gameVars, scene, image, sky, ground, ui>>

\* The tokio runtime, MESHY_API_KEY and the HTTP client.
build_client ==
    /\ pipe.pc = "setup"
    /\ \E f \in {"ok", "runtime", "MESHY_API_KEY is not set", "client"} :
         pipe' = IF f = "ok" THEN [pipe EXCEPT !.pc = NextPc(pipe.pc)]
                 ELSE Return(ErrAt(pipe.pc, f))
    /\ UNCHANGED <<gameVars, scene, image, sky, ground, ui>>

\* create_preview_task / create_refine_task: one POST; a failed request, an
\* error status, an undecodable body or a body without task id is an Err.
create_task ==
    /\ pipe.pc \in {"create_preview", "create_refine"}
    /\ \E r \in HttpOutcomes \cup {"no_task_id"} :
         LET p == [pipe EXCEPT !.log = Logged(pipe.pc), !.polls = 0]
         IN pipe' = IF r = "ok" THEN [p EXCEPT !.pc = NextPc(pipe.pc)]
                    ELSE [p EXCEPT !.pc = "returned",
                                   !.result = ErrAt(pipe.pc, r)]
    /\ UNCHANGED <<gameVars, scene, image, sky, ground, ui>>

\* poll_task_until_finished, one iteration, with the extract_glb_url that
\* follows a SUCCEEDED payload.  A payload that is neither SUCCEEDED nor
\* FAILED is followed by a sleep of POLL_INTERVAL and another iteration.
poll_task_until_finished ==
    /\ pipe.pc \in {"poll_preview", "poll_refine"}
    /\ \E resp \in PollResponses :
         LET v == PollVerdict(resp, pipe.polls)
             p == [pipe EXCEPT
                     !.last = resp,
                     !.log = IF pipe.polls = 0 /\ pipe.last.http = "none"
                             THEN Logged(pipe.pc) ELSE pipe.log]
             end(res) == [p EXCEPT !.pc = "returned", !.result = res]
         IN pipe' =
              CASE v = "error" -> end(ErrAt(pipe.pc, resp.http))
                [] v = "failed" -> end(ErrAt(pipe.pc, FailureReason(resp)))
                [] v = "succeeded" ->
                     IF resp.glb
                     THEN [p EXCEPT !.pc = NextPc(pipe.pc),
                                    !.log = Append(p.log,
                                               IF pipe.pc = "poll_preview"
                                               THEN "preview_succeeded"
                                               ELSE "refine_succeeded"),
                                    !.last = NoPayload]
                     ELSE end(ErrAt(pipe.pc, "missing glb URL"))
                [] OTHER ->
                     [p EXCEPT !.polls = IF @ < MaxPolls THEN @ + 1 ELSE @]
    /\ UNCHANGED <<gameVars, scene, image, sky, ground, ui>>

\* download_model: one GET of the glb URL.
download_model ==
    /\ pipe.pc \in {"download_preview", "download_refined"}
    /\ \E r \in HttpOutcomes :
         LET p == [pipe EXCEPT !.log = Logged(pipe.pc)]
         IN pipe' = IF r = "ok" THEN [p EXCEPT !.pc = NextPc(pipe.pc)]
                    ELSE [p EXCEPT !.pc = "returned",
                                   !.result = ErrAt(pipe.pc, r)]
    /\ UNCHANGED <<gameVars, scene, image, sky, ground, ui>>

WriteOutcome_ErrorSwallowed(ok, p, at) ==
    IF at = "write_refined"
    THEN [p EXCEPT !.pc = "returned", !.result = OkPaths(GenerationId(p.run))]
    ELSE [p EXCEPT !.pc = NextPc(at)]

\* The end of a storage operation: an error returns, a success goes on, and
\* the last write returns the two relative paths.
WriteOutcome(ok, p, at) ==
    IF ~ok THEN [p EXCEPT !.pc = "returned", !.result = ErrAt(at, "io")]
    ELSE IF at = "write_refined"
    THEN [p EXCEPT !.pc = "returned", !.result = OkPaths(GenerationId(p.run))]
    ELSE [p EXCEPT !.pc = NextPc(at)]

\* fs::create_dir_all and the two fs::write calls.
write_files ==
    /\ pipe.pc \in {"create_dir", "write_preview", "write_refined"}
    /\ \E ok \in BOOLEAN :
         LET file == IF pipe.pc = "write_preview" THEN PREVIEW_FILENAME
                     ELSE REFINED_FILENAME
             p == [pipe EXCEPT
                     !.log = Logged(pipe.pc),
                     !.files = IF ok /\ pipe.pc # "create_dir"
                               THEN @ \cup {WrittenPath(GenerationId(pipe.run),
                                                        file)}
                               ELSE @]
         IN pipe' = WriteOutcome(ok, p, pipe.pc)
    /\ UNCHANGED <<gameVars, scene, image, sky, ground, ui>>

\* ------------------------- generate_ground_texture / generate_sky_texture
\* The body of one ground or sky job.  image.log is the sequence of the
\* upstream requests the job has sent, with what came back; image.generated
\* is what generate_image returned; image.bytes the downloaded body;
\* image.written the files written so far by all jobs, with their writers.
ImageProgram(kind) ==
    IF kind = "Ground"
    THEN <<"setup", "generate_image", "first_url", "download", "create_dir",
           "write", "returned">>
    ELSE <<"setup", "generate_image", "first_url", "download", "convert",
           "create_dir", "write", "returned">>

ImageNextPc(kind, pc) ==
    LET prog == ImageProgram(kind)
    IN prog[(CHOOSE i \in DOMAIN prog : prog[i] = pc) + 1]

\* The data of an ImagesResponse: each image a URL or inline base64.
DataLists == {<<>>, <<"url">>, <<"b64">>, <<"url", "b64">>, <<"b64", "url">>}

\* What images().create(..) brings: Err(OpenAIError) for a failed request
\* or an error answer of the service, or Ok(ImagesResponse).
CreateOutcomes ==
    {[http |-> h, data |-> <<>>] : h \in {"send_err", "api_error"}}
    \cup {[http |-> "ok", data |-> d] : d \in DataLists}

OkImages(images) == [tag |-> "Ok", images |-> images, error |-> "none"]
ErrGenerative(e) == [tag |-> "Err", images |-> <<>>, error |-> e]

\* parse_response: every Image of the response becomes a GeneratedImage,
\* Url or Base64; the result is Ok whatever the number of images.
parse_response(data) ==
    OkImages([i \in DOMAIN data |-> IF data[i] = "url" THEN "Url" ELSE "Base64"])

\* Any first image taken for a URL.
FirstUrl_AnyImage(images) == Len(images) > 0

\* result.images.first() with the match on ImageData::Url.
FirstUrl(images) == Len(images) > 0 /\ images[1] = "Url"

GENERATED_TEXTURE_PATH(kind) == IF kind = "Ground" THEN GroundTexH.h ELSE SkyTexH.h

\* The file a job writes: the same fixed path under assets/ for every job
\* of a kind.
TextureFile(kind, run) == <<"assets", GENERATED_TEXTURE_PATH(kind)>>

ImageReturn(res) == [image EXCEPT !.pc = "returned", !.result = res]
ImageLogged(op, outcome, n) ==
    Append(image.log, [op |-> op, outcome |-> outcome, images |-> n])

\* A ground or sky job starts (the task closure of start_generation_tasks).
generate_texture ==
    /\ image.pc \in {"idle", "returned"}
    /\ image.run < MaxRuns
    /\ \E k \in Kinds :
         image' = [ImageIdle EXCEPT !.run = image.run + 1, !.kind = k,
                                    !.pc = "setup", !.written = image.written]
    /\ UNCHANGED <<gameVars, pipe, scene, sky, ground, ui>>

\* The tokio runtime of the job.
build_runtime ==
    /\ image.pc = "setup"
    /\ \E ok \in BOOLEAN :
         image' = IF ok THEN [image EXCEPT !.pc = ImageNextPc(image.kind, "setup")]
                  ELSE ImageReturn(ErrAt("setup", "runtime"))
    /\ UNCHANGED <<gameVars, pipe, scene, sky, ground, ui>>

\* generate_image: build_request, one images().create(..), parse_response;
\* the ? of the caller returns its Err.
generate_image ==
    /\ image.pc = "generate_image"
    /\ \/ /\ image' = [ImageReturn(ErrAt("generate_image", "OpenAi")) EXCEPT
                         !.generated = ErrGenerative("OpenAi")]
       \/ \E r \in CreateOutcomes :
            LET out == IF r.http = "ok" THEN parse_response(r.data)
                       ELSE ErrGenerative("OpenAi")
                p == [image EXCEPT !.log = ImageLogged("create", r.http,
                                                       Len(r.data)),
                                   !.generated = out]
            IN image' = IF out.tag = "Ok"
                        THEN [p EXCEPT !.pc = ImageNextPc(image.kind, image.pc)]
                        ELSE [p EXCEPT !.pc = "returned",
                                       !.result = ErrAt(image.pc, out.error)]
    /\ UNCHANGED <<gameVars, pipe, scene, sky, ground, ui>>

\* The URL of the first image, or the error "image generation returned no
\* URL".
first_url ==
    /\ image.pc = "first_url"
    /\ image' = IF FirstUrl(image.generated.images)
                THEN [image EXCEPT !.pc = ImageNextPc(image.kind, image.pc)]
                ELSE ImageReturn(ErrAt(image.pc, "no URL"))
    /\ UNCHANGED <<gameVars, pipe, scene, sky, ground, ui>>

\* reqwest::get(url).await?.bytes().await?: a request that cannot be sent
\* and a body that cannot be read are errors; the status of the answer is
\* not looked at.
DownloadOutcome(send, status, body) ==
    IF send = "send_err" THEN "send_err"
    ELSE IF body = "unreadable" THEN "body_err"
    ELSE "ok"

download_image ==
    /\ image.pc = "download"
    /\ \E send \in {"ok", "send_err"}, status \in {"ok", "status_err"},
          body \in {"image", "not_image", "unreadable"} :
         /\ send = "send_err" => (status = "ok" /\ body = "unreadable")
         /\ LET out == DownloadOutcome(send, status, body)
                p == [image EXCEPT
                        !.log = ImageLogged("download",
                                   IF send = "send_err" THEN send ELSE status,
                                   0)]
            IN image' = IF out = "ok"
                        THEN [p EXCEPT !.pc = ImageNextPc(image.kind, image.pc),
                                       !.bytes = body]
                        ELSE [p EXCEPT !.pc = "returned",
                                       !.result = ErrAt(image.pc, out)]
    /\ UNCHANGED <<gameVars, pipe, scene, sky, ground, ui>>

\* convert_to_ktx2 (sky): bytes that do not decode as an image are an error,
\* and so is a failure of the encoder.
convert_to_ktx2 ==
    /\ image.pc = "convert"
    /\ \E ok \in BOOLEAN :
         image' = IF ok /\ image.bytes = "image"
                  THEN [image EXCEPT !.pc = ImageNextPc(image.kind, image.pc)]
                  ELSE ImageReturn(ErrAt(image.pc, "convert"))
    /\ UNCHANGED <<gameVars, pipe, scene, sky, ground, ui>>

\* fs::create_dir_all, then fs::write / write_to_file and the Ok path.
write_texture ==
    /\ image.pc \in {"create_dir", "write"}
    /\ \E ok \in BOOLEAN :
         image' =
           IF ~ok THEN ImageReturn(ErrAt(image.pc, "io"))
           ELSE IF image.pc = "create_dir"
           THEN [image EXCEPT !.pc = ImageNextPc(image.kind, image.pc)]
           ELSE [image EXCEPT
                   !.pc = "returned",
                   !.written = @ \cup {[path |-> TextureFile(image.kind, image.run),
                                        kind |-> image.kind,
                                        run |-> image.run,
                                        bytes |-> image.bytes]},
                   !.result = [tag |-> "Ok",
                               path |-> GENERATED_TEXTURE_PATH(image.kind)]]
    /\ UNCHANGED <<gameVars, pipe, scene, sky, ground, ui>>

\* ------------------------------------ height adjustment, root by root
\* One prop root followed from its splice: scene.y is the y of the root's
\* Transform translation, scene.nodes the descendants the scene spawner has
\* put under it (node i has parent scene.nodes[i].parent, 0 being the
\* root).  A node with a Mesh3d has a box once its mesh asset is there and
\* has an Aabb.  The GlobalTransform of a node, as far as the height goes,
\* maps the local height ly to  root y + ty + s * ly  (s = -1 for a node
\* turned upside down); it is read as propagated from the root's
\* translation of the tick.
GroupNode(par) ==
    [parent |-> par, mesh |-> FALSE, box |-> FALSE, ty |-> 0, s |-> 1,
     cy |-> 0, hy |-> 0]

MeshNode(par, box, ty, s, cy, hy) ==
    [parent |-> par, mesh |-> TRUE, box |-> box, ty |-> ty, s |-> s,
     cy |-> cy, hy |-> hy]

NodesAt(i) ==
    {GroupNode(par) : par \in 0..(i - 1)}
    \cup {MeshNode(par, box, ty, s, b[1], b[2]) :
            par \in 0..(i - 1), box \in BOOLEAN, ty \in {0, 3}, s \in {1, -1},
            b \in {<<0, 1>>, <<1, 2>>}}

\* The scenes a generated model can instantiate: up to MaxNodes descendants.
Scenes ==
    UNION {{q \in [1..n -> UNION {NodesAt(i) : i \in 1..n}] :
              \A i \in 1..n : q[i] \in NodesAt(i)} : n \in 1..MaxNodes}

GroundHeights == {0, 2}

\* global_transform.transform_point(local).y
TransformPointY(y, node, ly) == y + node.ty + node.s * ly

\* The world heights of the eight corners center + (sx, sy, sz) * half.
CornerHeights(y, node) ==
    {TransformPointY(y, node, node.cy + c[2] * node.hy) :
       c \in {-1, 1} \X {-1, 1} \X {-1, 1}}

SetMin(S) == CHOOSE m \in S : \A x \in S : m <= x

\* min_y: Option<f32>, None being the empty set.
FoldMin(min_y, heights) ==
    IF heights = {} THEN min_y ELSE {SetMin(min_y \cup heights)}

\* The Children of an entity, in order.
ChildrenOf(nodes, entity) ==
    SelectSeq([i \in 1..Len(nodes) |-> i], LAMBDA i : nodes[i].parent = entity)

\* The scan stopping at the root's immediate children.
Descend_Never(nodes, entity) == <<>>

\* if let Ok(children) = children_query.get(entity): the visited entity's
\* children join the queue.
Descend(nodes, entity) == ChildrenOf(nodes, entity)

\* The while loop over the queue of entities to visit.
RECURSIVE ScanQueue(_, _, _, _)
ScanQueue(stack, min_y, y, nodes) ==
    IF stack = <<>> THEN min_y
    ELSE LET entity == Head(stack)
             node == nodes[entity]
             found == IF node.mesh /\ node.box THEN CornerHeights(y, node)
                      ELSE {}
         IN ScanQueue(Tail(stack) \o Descend(nodes, entity),
                      FoldMin(min_y, found), y, nodes)

NeedsScan_Always(prop) == TRUE

\* if prop.adjusted { continue; }
NeedsScan(prop) == ~prop.adjusted

\* The body of the loop of adjust_generated_prop_height for one root that
\* has Children.
AdjustRoot(prop) ==
    IF ~NeedsScan(prop) THEN prop
    ELSE LET min_y == ScanQueue(ChildrenOf(prop.nodes, 0), {}, prop.y,
                                prop.nodes)
         IN IF min_y = {} THEN prop
            ELSE LET delta == prop.ground_height - SetMin(min_y)
                 IN [prop EXCEPT !.y = @ + delta, !.adjusted = TRUE]

\* spawn_generated_model, for the root followed: the root is spawned at the
\* ground height of its SpawnLocation, not adjusted, without children.
splice_root ==
    /\ scene.stage = "none"
    /\ \E g \in GroundHeights :
         scene' = [NoScene EXCEPT !.stage = "spliced", !.y = g,
                                  !.ground_height = g]
    /\ UNCHANGED <<gameVars, pipe, image, sky, ground, ui>>

\* The scene spawner instantiates the loaded scene under the root.
spawn_scene ==
    /\ scene.stage = "spliced"
    /\ \E nodes \in Scenes :
         scene' = [scene EXCEPT !.stage = "instanced", !.nodes = nodes]
    /\ UNCHANGED <<gameVars, pipe, image, sky, ground, ui>>

\* A mesh asset that was missing arrives.
mesh_ready ==
    /\ scene.stage = "instanced"
    /\ \E i \in DOMAIN scene.nodes :
         /\ scene.nodes[i].mesh /\ ~scene.nodes[i].box
         /\ scene' = [scene EXCEPT !.nodes[i].box = TRUE]
    /\ UNCHANGED <<gameVars, pipe, image, sky, ground, ui>>

\* RigidBody::Dynamic: between two ticks physics moves the root.
physics_step ==
    /\ scene.stage \in {"spliced", "instanced"}
    /\ scene.fallen < MaxFall
    /\ scene' = [scene EXCEPT !.y = @ - 1, !.fallen = @ + 1]
    /\ UNCHANGED <<gameVars, pipe, image, sky, ground, ui>>

\* One tick of adjust_generated_prop_height on the root followed (a root
\* without Children is not in the query); scene.reruns counts the ticks
\* that found the prop already adjusted.
adjust_tick ==
    /\ scene.stage = "instanced"
    /\ scene.adjusted => scene.reruns < MaxReruns
    /\ scene' = [AdjustRoot(scene) EXCEPT
                   !.reruns = IF scene.adjusted THEN @ + 1 ELSE @]
    /\ UNCHANGED <<gameVars, pipe, image, sky, ground, ui>>

\* Between two frames the player moves and turns, and transform
\* propagation brings its GlobalTransform up to date.
MovePlayer ==
    /\ phase = "trans"
    /\ nextScreen \in {"Unchanged", screen}
    /\ \E p \in PlayerPoses :
         /\ place.players # {}
         /\ place.players # {p}
         /\ place' = [place EXCEPT !.players = {p}]
    /\ UNCHANGED <<screen, nextScreen, nextMenu, prompt, progress, assets,
                   loadState, entities, cmds, job, uiOpen, phase, ran, keys,
                   events, session, nprops, hist, faults, born, adjusted,
                   detail>>

\* ------------------------------------------------------ specification
Next ==
    \/ JobResolve
    \/ AssetLoadFinish
    \/ Input
    \/ StateTransition
    \/ listener
    \/ monitor_generation_tasks
    \/ advance_to_procedural_gameplay_screen
    \/ toggle_model_prompt
    \/ submit_model_prompt
    \/ monitor_model_generation_tasks
    \/ adjust_generated_prop_height
    \/ EndFrame

Spec == Init /\ [][Next]_vars

\* One prop job followed through generate_prop, the game left as it starts.
PropInit == InitGame /\ InitDetail({"pipe"})

PropNext ==
    \/ generate_prop
    \/ build_client
    \/ create_task
    \/ poll_task_until_finished
    \/ download_model
    \/ write_files

PropSpec == PropInit /\ [][PropNext]_vars

\* The game with the player followed as it moves, in an environment whose
\* jobs and asset loads all succeed.
PlaceInit ==
    /\ InitApp /\ faults = MaxFaults
    /\ InitDetail({})

PlaceNext == Next \/ MovePlayer

\* One prop root followed through its height adjustment, the game left as
\* it starts.
AdjustNext ==
    \/ splice_root
    \/ spawn_scene
    \/ mesh_ready
    \/ physics_step
    \/ adjust_tick

AdjustInit == InitGame /\ InitDetail({"scene"})

AdjustSpec == AdjustInit /\ [][AdjustNext]_vars

\* Ground and sky jobs followed one after another, the game left as it
\* starts.
ImageNext ==
    \/ generate_texture
    \/ build_runtime
    \/ generate_image
    \/ first_url
    \/ download_image
    \/ convert_to_ktx2
    \/ write_texture

ImageInit == InitGame /\ InitDetail({"image"})

ImageSpec == ImageInit /\ [][ImageNext]_vars

\* A ground or sky job followed to its end, and prop jobs after it (the
\* jobs share nothing but the storage).
JobsNext ==
    \/ pipe.pc = "idle" /\ ImageNext /\ image'.run = 1
    \/ image.pc = "returned" /\ PropNext

JobsInit == InitGame /\ InitDetail({"pipe", "image"})

JobsSpec == JobsInit /\ [][JobsNext]_vars

PlaceSpec == PlaceInit /\ [][PlaceNext]_vars

\* ------------------------------------------- convert_to_ktx2, step by step
\* The panorama sizes followed: small ones, and the 1024x512 of a generated
\* panorama.  A pixel has one channel here; the four channels of the code
\* go through the same arithmetic.
Widths == 1..(2 * MaxSide + 1) \cup {1024}
Heights == 1..(MaxSide + 1) \cup {512}
Patterns == {"white", "checker", "ramp"}

\* RgbaImage: its dimensions and its content (get_pixel).
RgbaImage(w, h, pat) == [width |-> w, height |-> h, pat |-> pat]
get_pixel(img, x, y) ==
    CASE img.pat = "white" -> 255
      [] img.pat = "checker" -> IF (x + y) % 2 = 0 THEN 255 ELSE 0
      [] OTHER -> (x * 50 + y * 30) % 256
InBounds(img, x, y) == x \in 0..(img.width - 1) /\ y \in 0..(img.height - 1)

Min(a, b) == IF a < b THEN a ELSE b
Max(a, b) == IF a > b THEN a ELSE b

\* (width / 2) without the lower bound of 1.
target_height_NoFloor(width) == width \div 2

\* let target_height = (width / 2).max(1);
target_height(width) == Max(width \div 2, 1)

\* The panorama left as decoded whatever its height.
crop_NotCropped(img) == img

\* if original_height > target_height { imageops::crop(.., 0, 0, width,
\* target_height) } else { the image as it is (a warning is logged when it
\* is shorter) }.
crop(img) ==
    IF img.height > target_height(img.width)
    THEN [img EXCEPT !.height = target_height(img.width)]
    ELSE img

\* The neighbour index without the clamp.
ClampedNext_Unclamped(i, size) == i + 1

\* (x0 + 1).min((width - 1.0) as u32)
ClampedNext(i, size) == Min(i + 1, size - 1)

\* f32::round of n / d for n >= 0, and clamp(0.0, 255.0) as u8.
Round(n, d) == (2 * n + d) \div (2 * d)
ClampU8(c) == Max(0, Min(c, 255))

\* sample_bilinear at u = un / Grid, v = vn / Grid: the four pixels read
\* and the interpolated channel (get_pixel panics on a coordinate outside
\* the image: no value).
sample_bilinear(img, un, vn) ==
    LET xn == un * (img.width - 1)
        yn == vn * (img.height - 1)
        x0 == xn \div Grid
        y0 == yn \div Grid
        x1 == ClampedNext(x0, img.width)
        y1 == ClampedNext(y0, img.height)
        fx == xn - x0 * Grid
        fy == yn - y0 * Grid
        top == get_pixel(img, x0, y0) * (Grid - fx) + get_pixel(img, x1, y0) * fx
        bottom == get_pixel(img, x0, y1) * (Grid - fx) + get_pixel(img, x1, y1) * fx
        ok == InBounds(img, x0, y0) /\ InBounds(img, x1, y1)
    IN [x0 |-> x0, y0 |-> y0, x1 |-> x1, y1 |-> y1, panic |-> ~ok,
        result |-> IF ok
                   THEN ClampU8(Round(top * (Grid - fy) + bottom * fy,
                                      Grid * Grid))
                   ELSE -1]

\* load_from_memory(bytes)?.to_rgba8(): any decodable panorama.
load_from_memory ==
    /\ sky.pc = "idle"
    /\ \E w \in Widths, h \in Heights, pat \in Patterns :
         sky' = [sky EXCEPT !.pc = "decoded",
                            !.input = RgbaImage(w, h, pat),
                            !.image = RgbaImage(w, h, pat)]
    /\ UNCHANGED <<gameVars, pipe, scene, image, ground, ui>>

\* Lines 19-39: the crop.
crop_panorama ==
    /\ sky.pc = "decoded"
    /\ sky' = [sky EXCEPT !.pc = "cropped", !.image = crop(sky.image)]
    /\ UNCHANGED <<gameVars, pipe, scene, image, ground, ui>>

\* Ktx2Texture::create(face_size, face_size, 1, 1, 6, 1, R8G8B8A8Unorm)
\* and the face buffer of face_size * face_size * 4 bytes (a u32 that the
\* sizes followed here do not overflow).
create_texture ==
    /\ sky.pc = "cropped"
    /\ LET face_size == sky.image.height
       IN sky' = [sky EXCEPT
                    !.pc = "faces",
                    !.face_size = face_size,
                    !.texture = [width |-> face_size, height |-> face_size,
                                 faces |-> 6, set |-> {}],
                    !.face_pixels = face_size * face_size * 4]
    /\ UNCHANGED <<gameVars, pipe, scene, image, ground, ui>>

\* for face in 0..6 { fill_cubemap_face; set_image_data(0, 0, face, ..) }:
\* one step per face, with one of the face's samples followed.  The
\* direction of an output pixel reaches sample_bilinear as the u and v of
\* sample_equirectangular, which rem_euclid(1.0) and clamp(0.0, 1.0) keep
\* within [0, 1].
fill_cubemap_face ==
    /\ sky.pc = "faces"
    /\ sky.face < 6
    /\ \E un \in 0..Grid, vn \in 0..Grid :
         LET s == sample_bilinear(sky.image, un, vn)
         IN sky' = [sky EXCEPT
                      !.sample = s,
                      !.samples = @ + 1,
                      !.texture.set = IF s.panic THEN @ ELSE @ \cup {sky.face},
                      !.face = IF s.panic THEN @ ELSE @ + 1,
                      !.pc = IF s.panic THEN "panicked"
                             ELSE IF sky.face = 5 THEN "done" ELSE @]
    /\ UNCHANGED <<gameVars, pipe, scene, image, ground, ui>>

SkyNext ==
    \/ load_from_memory
    \/ crop_panorama
    \/ create_texture
    \/ fill_cubemap_face

SkyInit == InitGame /\ InitDetail({"sky"})

SkySpec == SkyInit /\ [][SkyNext]_vars

\* ----------------------------------------------- the ground of the level
\* Lengths in world units, heights in hundredths of a unit.
Plane3d(size_x, size_z) ==
    [half_x |-> size_x \div 2, half_z |-> size_z \div 2, y |-> 0]

\* Collider::cuboid(x_length, y_length, z_length), y_length in hundredths:
\* a box centred on the entity, its top half of y_length above it.
ColliderCuboid(x_length, y_length, z_length) ==
    [half_x |-> x_length \div 2, half_z |-> z_length \div 2,
     top |-> y_length \div 2]

\* ProceduralLevelAssets::from_world: the ground mesh.
ground_mesh == Plane3d(2000, 2000)

\* The positions probed: a grid over the mesh and a little beyond it.
ProbeStep == 2000 \div MaxProbes
ProbeCoords == {ProbeStep * i - 1000 - ProbeStep : i \in 0..(MaxProbes + 2)}

Covers(shape, x, z) ==
    /\ -shape.half_x <= x /\ x <= shape.half_x
    /\ -shape.half_z <= z /\ z <= shape.half_z

\* spawn_ground: the mesh and the collider of the Ground entity at
\* Transform::from_xyz(0, 0, 0).
spawn_ground ==
    /\ ~ground.spawned
    /\ ground' = [ground EXCEPT !.spawned = TRUE,
                                !.mesh = ground_mesh,
                                !.collider = ColliderCuboid(1000, 10, 1000)]
    /\ UNCHANGED <<gameVars, pipe, scene, image, sky, ui>>

\* What is found at a ground position: the mesh surface, the collider
\* surface and the height predicted_spawn_location would query there.
probe_ground ==
    /\ ground.spawned
    /\ \E x \in ProbeCoords, z \in ProbeCoords :
         ground' = [ground EXCEPT
                      !.probes = 1,
                      !.at = [x |-> x, z |-> z],
                      !.on_mesh = Covers(ground.mesh, x, z),
                      !.on_collider = Covers(ground.collider, x, z),
                      !.mesh_height = ground.mesh.y,
                      !.collider_height = ground.collider.top,
                      !.query_height = 100 * sample_terrain_height(x, z)]
    /\ UNCHANGED <<gameVars, pipe, scene, image, sky, ui>>

GroundNext ==
    \/ spawn_ground
    \/ probe_ground

GroundInit == InitGame /\ InitDetail({"ground"})

GroundSpec == GroundInit /\ [][GroundNext]_vars

\* --------------------------------------- the prop prompt and the pause keys
\* The gameplay screen with its Menu and Pause states, the prompt overlay
\* and the Update systems that read the keys, followed in the variable ui.
\* The pause menu's buttons and the way into the gameplay screen are the
\* environment.
OverlayId == "ModelPromptOverlay"
UiKeys == {"M", "Esc", "P"}
UiSystems ==
    {"pause", "spawn_pause_overlay", "open_pause_menu", "close_menu",
     "toggle_model_prompt", "submit_model_prompt"}

\* Closing with the game unpaused whoever paused it.
CloseModelPromptUi_AlwaysUnpauses(u) ==
    [u EXCEPT
       !.root = FALSE,
       !.next_pause = "false",
       !.paused_game = FALSE,
       !.blocks_input = IF u.blocked_input THEN @ \ {OverlayId} ELSE @,
       !.blocked_input = FALSE,
       !.wants_free_cursor = IF u.crosshair THEN @ \ {OverlayId} ELSE @]

\* close_model_prompt_ui on ModelPromptUiState, NextState<Pause>,
\* BlocksInput and the crosshair.
CloseModelPromptUi(u) ==
    [u EXCEPT
       !.root = FALSE,
       !.next_pause = IF u.paused_game THEN "false" ELSE @,
       !.paused_game = FALSE,
       !.blocks_input = IF u.blocked_input THEN @ \ {OverlayId} ELSE @,
       !.blocked_input = FALSE,
       !.wants_free_cursor = IF u.crosshair THEN @ \ {OverlayId} ELSE @]

\* open_model_prompt_ui, was_paused being State<Pause> as the caller read it.
OpenModelPromptUi(u, was_paused) ==
    IF u.root THEN u
    ELSE [u EXCEPT
            !.root = TRUE,
            !.paused_game = ~was_paused,
            !.next_pause = IF ~was_paused THEN "true" ELSE @,
            !.blocked_input = OverlayId \notin u.blocks_input,
            !.blocks_input = @ \cup {OverlayId},
            !.wants_free_cursor = IF u.crosshair THEN @ \cup {OverlayId}
                                  ELSE @]

\* toggle_model_prompt.
ToggleModelPrompt(u) ==
    IF ~u.root /\ "M" \in u.keys THEN OpenModelPromptUi(u, u.pause)
    ELSE IF u.root /\ "Esc" \in u.keys THEN CloseModelPromptUi(u)
    ELSE u

\* submit_model_prompt, as far as the overlay: the first non-blank text
\* submitted to an open prompt closes it.
SubmitModelPrompt(u) ==
    IF u.root /\ u.event \notin {"none", ""} THEN CloseModelPromptUi(u)
    ELSE u

\* The run condition shared by pause, spawn_pause_overlay and
\* open_pause_menu.
PauseGroupCondition(u) ==
    /\ u.screen = "ProceduralGameplay"
    /\ u.menu = "None"
    /\ ~u.root
    /\ u.keys \cap {"P", "Esc"} # {}

\* What one Update system does to the state.  The condition of the pause
\* group is evaluated once per frame, when the first of its systems is
\* about to run.
SystemEffect(sys, u) ==
    LET c == IF u.cond = "unevaluated"
             THEN (IF PauseGroupCondition(u) THEN "true" ELSE "false")
             ELSE u.cond
    IN CASE sys = "pause" ->
              [u EXCEPT !.cond = c,
                        !.next_pause = IF c = "true" THEN "true" ELSE @]
         [] sys = "spawn_pause_overlay" ->
              [u EXCEPT !.cond = c,
                        !.overlay = IF c = "true" THEN TRUE ELSE @]
         [] sys = "open_pause_menu" ->
              [u EXCEPT !.cond = c,
                        !.next_menu = IF c = "true" THEN "Pause" ELSE @]
         [] sys = "close_menu" ->
              IF u.menu # "None" /\ "P" \in u.keys
              THEN [u EXCEPT !.next_menu = "None"] ELSE u
         [] sys = "toggle_model_prompt" -> ToggleModelPrompt(u)
         [] sys = "submit_model_prompt" -> SubmitModelPrompt(u)

\* One Update system of the gameplay screen runs; the systems have no
\* order among them.
run_system ==
    /\ ui.phase = "update"
    /\ ui.screen = "ProceduralGameplay"
    /\ \E sys \in UiSystems \ ui.ran :
         ui' = [SystemEffect(sys, ui) EXCEPT !.ran = @ \cup {sys}]
    /\ UNCHANGED <<gameVars, pipe, scene, image, sky, ground>>

\* OnExit(Screen::ProceduralGameplay): close_menu, unpause,
\* cleanup_model_prompt.
OnExitGameplayUi(u) ==
    [CloseModelPromptUi(u) EXCEPT !.next_menu = "None", !.next_pause = "false"]

ApplyScreen(u) ==
    IF u.next_screen \in {"Unchanged", u.screen} THEN [u EXCEPT !.next_screen = "Unchanged"]
    ELSE [(IF u.screen = "ProceduralGameplay" THEN OnExitGameplayUi(u) ELSE u)
            EXCEPT !.screen = u.next_screen, !.next_screen = "Unchanged"]

\* OnEnter(Menu::None): unpause.run_if(in_state(Screen::ProceduralGameplay)).
ApplyMenu(u) ==
    IF u.next_menu \in {"Unchanged", u.menu} THEN [u EXCEPT !.next_menu = "Unchanged"]
    ELSE [u EXCEPT !.menu = u.next_menu,
                   !.next_menu = "Unchanged",
                   !.next_pause = IF u.next_menu = "None"
                                     /\ u.screen = "ProceduralGameplay"
                                  THEN "false" ELSE @]

\* The pause overlay is StateScoped(Pause(true)).
ApplyPause(u) ==
    IF u.next_pause = "Unchanged" THEN u
    ELSE [u EXCEPT !.pause = (u.next_pause = "true"),
                   !.next_pause = "Unchanged",
                   !.overlay = IF u.pause /\ u.next_pause = "false"
                               THEN FALSE ELSE @]

\* The StateTransition schedule: Screen, Menu and Pause in turn.
ui_state_transition ==
    /\ ui.phase = "trans"
    /\ ui' = [ApplyPause(ApplyMenu(ApplyScreen(ui))) EXCEPT !.phase = "input"]
    /\ UNCHANGED <<gameVars, pipe, scene, image, sky, ground>>

\* The frame's input: the keys just pressed, a text submitted to the
\* prompt's TextInput, a button of the pause menu (Resume, Quit to title),
\* or, on another screen, the way back into the gameplay screen.
ui_input ==
    /\ ui.phase = "input"
    /\ \E ks \in SUBSET UiKeys, ev \in {"none", "", "a"},
          click \in {"none", "resume", "quit", "play"} :
         /\ ev # "none" => ui.root
         /\ click \in {"resume", "quit"} =>
              (ui.screen = "ProceduralGameplay" /\ ui.menu = "Pause")
         /\ click = "play" <=> ui.screen # "ProceduralGameplay"
         /\ ui.screen # "ProceduralGameplay" => (ks = {} /\ ev = "none")
         /\ ui' = [ui EXCEPT
                     !.phase = "update",
                     !.keys = ks,
                     !.event = ev,
                     !.was_open = ui.root,
                     !.was_paused_game = ui.paused_game,
                     !.next_menu = IF click = "resume" THEN "None" ELSE @,
                     !.next_screen = CASE click = "quit" -> "Title"
                                       [] click = "play" -> "ProceduralGameplay"
                                       [] OTHER -> @]
    /\ UNCHANGED <<gameVars, pipe, scene, image, sky, ground>>

\* The end of the frame.
ui_end_frame ==
    /\ ui.phase = "update"
    /\ ui.screen = "ProceduralGameplay" => ui.ran = UiSystems
    /\ ui' = [ui EXCEPT !.phase = "trans", !.keys = {}, !.event = "none",
                        !.ran = {}, !.cond = "unevaluated"]
    /\ UNCHANGED <<gameVars, pipe, scene, image, sky, ground>>

UiNext ==
    \/ ui_state_transition
    \/ ui_input
    \/ run_system
    \/ ui_end_frame

UiSpec == UiInit /\ [][UiNext]_vars




\* The steps of the frame loop (the schedules the app runs every frame).
FrameStep ==
    \/ StateTransition
    \/ Input
    \/ listener
    \/ monitor_generation_tasks
    \/ advance_to_procedural_gameplay_screen
    \/ toggle_model_prompt
    \/ submit_model_prompt
    \/ monitor_model_generation_tasks
    \/ adjust_generated_prop_height
    \/ EndFrame

\* The frame loop keeps running (each system runs at most once per frame,
\* so a frame that keeps stepping ends) and every background job returns.
Fairness ==
    /\ WF_vars(FrameStep)
    /\ \A e \in TaskEnts : WF_vars(JobResolveOf(e))

FairSpec == Spec /\ Fairness

\* Every asset load the server has started reaches Loaded or Failed.  The
\* server works between frames, so the load can finish whenever the frame
\* loop comes round to the start of a frame.
LoadFairness == SF_vars(AssetLoadFinish)

LoadFairSpec == FairSpec /\ LoadFairness

\* ------------------------------------------------------------ properties
Terminal(st) == st.tag \in {"Succeeded", "Failed"}
BothSucceeded == \A k \in Kinds : progress[k].tag = "Succeeded"
SomeFailed == SomeFailedOf(progress)
StepOf(sys) == sys \notin ran /\ sys \in ran'
AdvanceStep == StepOf("advance_to_procedural_gameplay_screen")

\* C1: the gameplay screen is requested only while ground and sky are
\* both Succeeded and every handle the gate tracks has finished loading:
\* music, both environment maps, the ground texture and the sky texture are
\* Loaded, and the ground material (added in memory, never loaded by the
\* asset server) is neither loading nor failed.
C1_GateOpensOnlyWhenReady ==
    nextScreen = "ProceduralGameplay" =>
        /\ screen = "ProceduralLoading"
        /\ BothSucceeded
        /\ \A h \in {assets.music, assets.env_map_specular,
                      assets.env_map_diffuse, progress["Ground"].texture,
                      progress["Sky"].texture} :
               GetLoadState(loadState, h) = "Loaded"
        /\ GetLoadState(loadState, progress["Ground"].material)
              \notin {"Loading", "Failed"}

C1_Witness ==
    /\ nextScreen = "ProceduralGameplay"
    /\ screen = "ProceduralLoading"
    /\ "advance_to_procedural_gameplay_screen" \in ran

\* C2: whenever the supervisor's gate runs while ground or sky is Failed
\* (whatever the other status), it requests Title and Menu::Main; the
\* gameplay screen is never pending while a kind is Failed, and a session
\* with a Failed kind is left only for Title.
C2_FailedFallsBack ==
    /\ [](SomeFailed => nextScreen # "ProceduralGameplay")
    /\ [][/\ (AdvanceStep /\ SomeFailed) =>
               (nextScreen' = "Title" /\ nextMenu' = "Main")
          /\ (SomeFailed /\ screen' # screen) => screen' = "Title"]_vars

C2_Witness ==
    /\ progress["Ground"].tag = "Failed"
    /\ progress["Sky"].tag = "InProgress"
    /\ nextScreen = "Title"
    /\ nextMenu = "Main"

LeavesLoading == screen = "ProceduralLoading" /\ screen' # screen
NeverStuck(k) == (progress[k].tag = "InProgress") ~> (progress[k].tag # "InProgress")

\* C3 as stated: when every job returns, neither kind stays InProgress
\* forever and each kind has reached Succeeded or Failed when its session
\* ends.
C3_EveryKindTerminal ==
    /\ \A k \in Kinds : NeverStuck(k)
    /\ [][LeavesLoading => \A k \in Kinds : Terminal(progress[k])]_vars

\* C3, amended: when every job returns, neither kind stays InProgress
\* forever, and a kind ends its session without a terminal status only
\* when the session is aborted by the failure of the other kind.
C3_TerminalOrAborted ==
    /\ \A k \in Kinds : NeverStuck(k)
    /\ [][LeavesLoading =>
            \A k \in Kinds : Terminal(progress[k]) \/ SomeFailed]_vars

C3_Witness ==
    /\ screen = "Title"
    /\ session = 1
    /\ phase = "input"
    /\ job[GenTask("Ground", 1)] = "taken"
    /\ job[GenTask("Sky", 1)] = "running"
    /\ \A k \in Kinds : progress[k].tag = "Pending"

GenEntities == {e \in entities : e.t = "gen"}
CurrentJobs == {GenTask(k, session) : k \in Kinds}

C5_StaleResultIgnored ==
    [][\A e \in GenTasks :
         /\ (job[e] # "taken" /\ job'[e] = "taken") => e.n = session
         /\ (e.n < session /\ job[e] = "running" /\ job'[e] # "running") =>
               /\ job'[e] = "dropped"
               /\ UNCHANGED <<progress, assets>>]_vars

C5_Witness ==
    /\ session = 2
    /\ screen = "ProceduralLoading"
    /\ job[GenTask("Sky", 1)] = "dropped"
    /\ progress["Sky"].tag = "InProgress"
    /\ "monitor_generation_tasks" \in ran

\* C6: a status that is Succeeded or Failed changes only in the step that
\* leaves the loading screen, which resets it to Pending.
C6_StatusMonotonic ==
    [][\A k \in Kinds :
         (Terminal(progress[k]) /\ progress'[k] # progress[k]) =>
            (LeavesLoading /\ progress'[k] = Pending)]_vars

C6_Witness ==
    /\ screen = "ProceduralLoading"
    /\ progress["Ground"].tag = "Succeeded"
    /\ progress["Sky"].tag = "Failed"
    /\ order = "ground"

\* C7: no job is polled again after its result was taken; a job whose
\* result was taken is still in the active set only within the tick that
\* took it, with its despawn queued.
C7_HandledOnce ==
    /\ ~panicked
    /\ \A e \in TaskEnts :
          (job[e] = "taken" /\ e \in entities) =>
             (phase = "update" /\ Despawn(e) \in cmds)

C7_Witness ==
    /\ screen = "ProceduralGameplay"
    /\ "monitor_model_generation_tasks" \in ran
    /\ job[PropTask(1)] = "taken"
    /\ PropTask(1) \notin entities
    /\ \A k \in Kinds : job[GenTask(k, 2)] = "taken" /\ GenTask(k, 2) \notin entities

\* C8: in a tick where the gate runs with ground and sky Succeeded and
\* every path asset Loaded, it requests the gameplay screen, and that is
\* the first request of the session; no session requests a screen in more
\* than one tick.
GateReady ==
    /\ BothSucceeded
    /\ \A h \in {assets.music, assets.env_map_specular,
                  assets.env_map_diffuse, progress["Ground"].texture,
                  progress["Sky"].texture} :
           GetLoadState(loadState, h) = "Loaded"

C8_ActivationOnce ==
    /\ [](signals # "again")
    /\ [][(AdvanceStep /\ GateReady) =>
            /\ signals = "none"
            /\ signals' = "ProceduralGameplay"
            /\ nextScreen' = "ProceduralGameplay"]_vars

C8_Witness ==
    /\ screen = "ProceduralGameplay"
    /\ signals = "ProceduralGameplay"

\* C9: whichever of ground and sky is observed first, or both in one
\* tick, once both are Succeeded the statuses and the asset container are
\* the same, and the gameplay screen is pending only after both completed.
FinalProgress ==
    [k \in Kinds |->
       IF k = "Ground"
       THEN Succeeded(Handle("material", session), GroundTexH)
       ELSE Succeeded(NoH, SkyTexH)]

FinalAssets ==
    [ground_material |-> Handle("material", session),
     env_map_specular |-> SkyTexH,
     env_map_diffuse |-> SkyTexH,
     music |-> MusicH]

C9_OrderIndependent ==
    /\ BothSucceeded =>
         /\ order \in {"ground_first", "sky_first", "same_tick"}
         /\ progress = FinalProgress
         /\ assets = FinalAssets
    /\ nextScreen = "ProceduralGameplay" => BothSucceeded

C9_Witness ==
    /\ BothSucceeded
    /\ order = "sky_first"
    /\ nextScreen = "ProceduralGameplay"

\* C10: a tick's poll of a job that is still running leaves that job
\* running, in the active set, with no despawn queued, its kind's status
\* (or its placeholder and the scene) as before; a tick in which no polled
\* job has finished changes nothing but the tick's own position; and the
\* two monitor systems are never blocked by a running job.
Polled(sys) ==
    {e \in entities :
       e.t = IF sys = "monitor_generation_tasks" THEN "gen" ELSE "prop"}

C10_UnfinishedPollChangesNothing ==
    /\ [][\A sys \in {"monitor_generation_tasks",
                       "monitor_model_generation_tasks"} :
            StepOf(sys) =>
              /\ \A e \in Polled(sys) :
                    job[e] = "running" =>
                      /\ job'[e] = "running"
                      /\ e \in entities'
                      /\ Despawn(e) \notin cmds'
                      /\ e.t = "gen" => progress'[e.k] = progress[e.k]
                      /\ e.t = "prop" =>
                            /\ Despawn(Placeholder(e.n)) \notin cmds'
                            /\ Spawn(PropRoot(e.n)) \notin cmds'
              /\ (\A e \in Polled(sys) : job[e] = "running") =>
                    UNCHANGED <<progress, assets, loadState, entities, cmds,
                                job, nextScreen, nextMenu>>]_vars
    /\ [](/\ (phase = "update" /\ screen = "ProceduralLoading"
                /\ "monitor_generation_tasks" \notin ran)
               => ENABLED monitor_generation_tasks
          /\ (phase = "update" /\ screen = "ProceduralGameplay"
                /\ "monitor_model_generation_tasks" \notin ran)
               => ENABLED monitor_model_generation_tasks)

C10_Witness ==
    /\ screen = "ProceduralGameplay"
    /\ "monitor_model_generation_tasks" \in ran
    /\ PropTask(1) \in entities
    /\ job[PropTask(1)] = "running"
    /\ Despawn(PropTask(1)) \notin cmds

Resolves(e) == job[e] = "running" /\ job'[e] \in {"ok", "err", "dropped"}

\* C11: a step in which a background job returns changes nothing but that
\* job's result: not the statuses, the asset container, the load states,
\* the entities or the queued commands.  The asset container changes only
\* in a step of monitor_generation_tasks, and the statuses only there and
\* in the transition that starts or ends a session.
C11_OnlyForegroundWrites ==
    [][/\ (\E e \in TaskEnts : Resolves(e)) =>
             UNCHANGED <<progress, assets, loadState, entities, cmds, screen,
                         nextScreen, nextMenu>>
       /\ assets' # assets => StepOf("monitor_generation_tasks")
       /\ progress' # progress =>
             (StepOf("monitor_generation_tasks") \/ screen' # screen)]_vars

C11_Witness ==
    /\ screen = "ProceduralLoading"
    /\ job[GenTask("Ground", 1)] = "ok"
    /\ job[GenTask("Sky", 1)] = "err"
    /\ \A k \in Kinds : progress[k].tag = "InProgress"
    /\ assets = ProceduralLevelAssetsFromWorld

InLog(op) == \E i \in DOMAIN pipe.log : pipe.log[i] = op
Before(a, b) ==
    \E i, j \in DOMAIN pipe.log :
        i < j /\ pipe.log[i] = a /\ pipe.log[j] = b

FullLog ==
    <<"create_preview", "poll_preview", "preview_succeeded",
      "download_preview", "create_refine", "poll_refine", "refine_succeeded",
      "download_refined", "create_dir", "write_preview", "write_refined">>

FailedPoll ==
    /\ pipe.result.tag = "Err"
    /\ pipe.result.at \in {"poll_preview", "poll_refine"}
    /\ pipe.last.http = "ok"
    /\ pipe.last.status = "FAILED"

PollPcs == {"poll_preview", "poll_refine"}
PollAgain == poll_task_until_finished /\ pipe'.pc = pipe.pc

\* C14: an iteration of the poll loop that reads a status other than
\* SUCCEEDED and FAILED (an unknown or missing one included) stays in the
\* loop with no result; the loop is left only after SUCCEEDED, after FAILED
\* or after a poll request that failed; and however many polls have been
\* answered "still running", another poll is possible: no count or timeout
\* ends the loop.
C14_PollLoopUnbounded ==
    /\ [][(pipe.pc \in PollPcs /\ pipe' # pipe) =>
            /\ (pipe'.last.http = "ok"
                  /\ pipe'.last.status \notin {"SUCCEEDED", "FAILED"}) =>
                  (pipe'.pc = pipe.pc /\ pipe'.result = NoResult)
            /\ pipe'.pc # pipe.pc =>
                  \/ /\ pipe'.pc = NextPc(pipe.pc)
                     /\ pipe'.log[Len(pipe'.log)]
                           \in {"preview_succeeded", "refine_succeeded"}
                  \/ /\ pipe'.pc = "returned"
                     /\ pipe'.result.tag = "Err"
                     /\ \/ pipe'.last.http \in HttpOutcomes \ {"ok"}
                        \/ pipe'.last.status \in {"SUCCEEDED", "FAILED"}]_vars
    /\ [](pipe.pc \in PollPcs => ENABLED PollAgain)

C14_Witness ==
    /\ pipe.pc = "poll_preview"
    /\ pipe.polls = MaxPolls
    /\ pipe.last.status = "CANCELED"
    /\ pipe.result = NoResult

StorageOps == {"create_dir", "write_preview", "write_refined"}
FilesOf(id) == {f \in pipe.files : f[3] = id}

\* C15: a call that returned Ok has issued every operation once, in order,
\* the two downloads included; both files are in storage, under the one
\* directory named by the call's generation identifier, and the two
\* returned paths are those files' paths relative to the asset root.  The
\* identifier is fresh: no file is under it before the call's first write.
\* A storage operation that fails is the last operation of the call, which
\* has returned an error, and was issued once.
C15_OkMeansBothStored ==
    /\ pipe.result.tag = "Ok" =>
          LET id == GenerationId(pipe.run)
          IN /\ pipe.pc = "returned"
             /\ pipe.log = FullLog
             /\ FilesOf(id) = {WrittenPath(id, PREVIEW_FILENAME),
                               WrittenPath(id, REFINED_FILENAME)}
             /\ <<"assets">> \o pipe.result.preview_path
                   = WrittenPath(id, PREVIEW_FILENAME)
             /\ <<"assets">> \o pipe.result.refined_path
                   = WrittenPath(id, REFINED_FILENAME)
    /\ pipe.pc \in {"create_dir", "write_preview"} =>
          FilesOf(GenerationId(pipe.run)) = {}
    /\ (pipe.result.tag = "Err" /\ pipe.result.at \in StorageOps) =>
          /\ pipe.pc = "returned"
          /\ pipe.log[Len(pipe.log)] = pipe.result.at
          /\ Cardinality({i \in DOMAIN pipe.log :
                             pipe.log[i] = pipe.result.at}) = 1
          /\ WrittenPath(GenerationId(pipe.run), REFINED_FILENAME)
                \notin pipe.files

C15_Witness ==
    /\ pipe.run = 2
    /\ pipe.result.tag = "Ok"
    /\ FilesOf(GenerationId(1)) = {WrittenPath(GenerationId(1), PREVIEW_FILENAME)}

ModelStep == StepOf("monitor_model_generation_tasks")
PropEntities == {e \in entities : e.t = "prop"}

\* C16: the tick that observes a prop job's error does not panic; it queues
\* the despawn of the job and of its placeholder and no prop root, and
\* leaves the screen, the pending screen and the pending menu as they are;
\* once the tick is over neither the job nor its placeholder is alive.  A
\* prop root is only ever queued for a job observed with Ok.
C16_PropErrorHandled ==
    /\ [][ModelStep =>
            /\ ~panicked'
            /\ UNCHANGED <<screen, nextScreen, nextMenu>>
            /\ \A e \in PropEntities :
                  /\ job[e] = "err" =>
                        /\ job'[e] = "taken"
                        /\ Despawn(e) \in cmds'
                        /\ Despawn(Placeholder(e.n)) \in cmds'
                        /\ Spawn(PropRoot(e.n)) \notin cmds'
                  /\ Spawn(PropRoot(e.n)) \in cmds' => job[e] = "ok"]_vars
    /\ [](\A e \in PropTasks :
            (job[e] = "taken" /\ phase # "update") =>
               (e \notin entities /\ Placeholder(e.n) \notin entities))

C16_Witness ==
    /\ screen = "ProceduralGameplay"
    /\ phase = "trans"
    /\ nextScreen = "Unchanged"
    /\ job[PropTask(1)] = "taken"
    /\ PropTask(1) \notin entities
    /\ PropRoot(1) \notin entities
    /\ born[1] = session - 1

\* C17 as stated: in every state, the placeholder of every active prop job
\* is alive (it lasts from the submission until the job's completion is
\* observed).
C17_PlaceholderWhileActive ==
    \A e \in PropEntities : Placeholder(e.n) \in entities

\* C18: a submission starts a prop job however many prop jobs are active;
\* the tick that polls the prop jobs handles each one by its own result,
\* whatever the others' and whatever the ground and sky jobs' states: an Ok
\* job is taken, despawned and its prop root queued, a running job is left
\* as it is.  The prop root of a job is queued in no other step, and it
\* enters the scene not adjusted.
C18_PropJobsIndependent ==
    [][/\ (StepOf("submit_model_prompt") /\ uiOpen
            /\ \E i \in DOMAIN events : Trim(events[i]) # "") =>
             /\ job'[PropTask(nprops + 1)] = "running"
             /\ Spawn(PropTask(nprops + 1)) \in cmds'
       /\ ModelStep =>
             \A e \in PropEntities :
                /\ job[e] = "ok" =>
                      /\ job'[e] = "taken"
                      /\ Despawn(e) \in cmds'
                      /\ Spawn(PropRoot(e.n)) \in cmds'
                /\ job[e] = "running" =>
                      /\ job'[e] = "running"
                      /\ Despawn(e) \notin cmds'
                      /\ Spawn(PropRoot(e.n)) \notin cmds'
       /\ \A i \in 1..MaxProps :
             /\ (Spawn(PropRoot(i)) \in cmds' /\ Spawn(PropRoot(i)) \notin cmds)
                   => (ModelStep /\ job[PropTask(i)] = "ok"
                        /\ PropRoot(i) \notin entities)
             /\ (PropRoot(i) \in entities' /\ PropRoot(i) \notin entities)
                   => i \notin adjusted']_vars

C18_Witness ==
    /\ screen = "ProceduralGameplay"
    /\ PropRoot(1) \in entities
    /\ 1 \notin adjusted
    /\ PropTask(2) \in entities
    /\ job[PropTask(2)] = "running"
    /\ "monitor_model_generation_tasks" \in ran

\* C19 as stated: no step taken on the gameplay screen (where the only text
\* input is the prop prompt) changes the stored level-generation prompt or
\* requests the loading screen, and no session starts from the gameplay
\* screen.
C19_PropPromptIndependent ==
    [][screen = "ProceduralGameplay" =>
         /\ prompt' = prompt
         /\ nextScreen' # "ProceduralLoading"
         /\ session' = session]_vars

\* C20 as stated: the prop root of a job is only ever queued in the
\* gameplay session in which the job was submitted.
C20_StalePropDiscarded ==
    [][\A i \in 1..MaxProps :
         (Spawn(PropRoot(i)) \in cmds' /\ Spawn(PropRoot(i)) \notin cmds) =>
            born[i] = session]_vars

SubmitStep == StepOf("submit_model_prompt")

\* C21: the SpawnLocation of prop i is written in one step only, the
\* submit_model_prompt tick that starts job i, and is then the placement
\* predicted from the player's pose of that tick; the root a finished job
\* splices is given exactly the transform and ground height stored then,
\* wherever the player stands when the job completes.
C21_PlacedAtRequest ==
    [][\A i \in 1..MaxProps :
         /\ place'.spawn_location[i] # place.spawn_location[i] =>
               /\ SubmitStep
               /\ i = nprops + 1 /\ nprops' = i
               /\ place'.spawn_location[i] =
                     predicted_spawn_location(place.players)
         /\ (place'.root[i] # place.root[i] /\ place'.root[i] # NoLocation) =>
               /\ ModelStep
               /\ job[PropTask(i)] = "ok"
               /\ place'.root[i] = place.spawn_location[i]]_vars

\* A root has been spliced in this tick while the player stands where the
\* prediction would now give another placement.
C21_Witness ==
    /\ "monitor_model_generation_tasks" \in ran
    /\ \E i \in 1..MaxProps :
         /\ Spawn(PropRoot(i)) \in cmds
         /\ place.root[i] = place.spawn_location[i]
         /\ place.root[i] # NoLocation
         /\ place.root[i] # predicted_spawn_location(place.players)

\* The descendants of the root, at any depth, that have a box, and the
\* lowest world height over the corners of all of them.
Boxes(prop) == {i \in DOMAIN prop.nodes : prop.nodes[i].mesh /\ prop.nodes[i].box}
Lowest(prop) ==
    SetMin(UNION {CornerHeights(prop.y, prop.nodes[i]) : i \in Boxes(prop)})

\* C22: the adjusted flag never goes back to false; a tick of the
\* adjustment system changes the root's height only when it finds the prop
\* not adjusted and leaves it adjusted; and a tick on an adjusted prop
\* changes nothing of the prop (only the count of such ticks grows).
C22_AdjustedOnce ==
    [][/\ scene.adjusted => scene'.adjusted
       /\ adjust_tick =>
            /\ scene'.y # scene.y => (~scene.adjusted /\ scene'.adjusted)
            /\ scene.adjusted =>
                 scene' = [scene EXCEPT !.reruns = @ + 1]]_vars

\* MaxReruns ticks have run on an adjusted prop that physics has moved off
\* its resting height since.
C22_Witness ==
    /\ scene.adjusted
    /\ scene.reruns = MaxReruns
    /\ scene.fallen > 0
    /\ Lowest(scene) < scene.ground_height

\* C23: a tick marks the prop adjusted exactly when some descendant, at
\* whatever depth, has a mesh bounding box; the root is then moved up by
\* ground_height minus the lowest world height over the corners of all
\* those boxes, so that the lowest corner is at ground_height.
C23_RestsOnGround ==
    [][/\ (adjust_tick /\ ~scene.adjusted) =>
            (scene'.adjusted <=> Boxes(scene) # {})
       /\ (~scene.adjusted /\ scene'.adjusted) =>
            /\ scene'.y - scene.y = scene.ground_height - Lowest(scene)
            /\ Lowest(scene') = scene.ground_height]_vars

\* An adjusted prop whose lowest corner belongs to an upside-down mesh that
\* is not an immediate child of the root.
C23_Witness ==
    /\ scene.adjusted
    /\ scene.reruns = 0
    /\ \E i \in Boxes(scene) :
         /\ scene.nodes[i].parent # 0
         /\ scene.nodes[i].s = -1
         /\ SetMin(CornerHeights(scene.y, scene.nodes[i])) = scene.ground_height
         /\ \A j \in Boxes(scene) \ {i} :
              SetMin(CornerHeights(scene.y, scene.nodes[j])) > scene.ground_height

\* C24 as stated: no file is written by two generations (two writes of one
\* path come from the same job).
C24_NoOverwrite ==
    \A f, g \in image.written :
        f.path = g.path => (f.kind = g.kind /\ f.run = g.run)

\* C25 as stated: when the upstream response of the call carried no image,
\* generate_image returned the error MissingImageData.
C25_EmptyIsMissingImageData ==
    \A i \in DOMAIN image.log :
        (image.log[i].op = "create" /\ image.log[i].outcome = "ok"
            /\ image.log[i].images = 0) =>
        image.generated = ErrGenerative("MissingImageData")

UpstreamFailures == {"send_err", "api_error", "status_err"}

\* C26 as stated, for the ground and sky jobs: an upstream request that
\* failed (could not be sent, or was answered with an error status) is the
\* last request of the job, and the job has returned an error.
C26_FirstFailureEndsJob ==
    \A i \in DOMAIN image.log :
        image.log[i].outcome \in UpstreamFailures =>
            /\ i = Len(image.log)
            /\ image.pc = "returned"
            /\ image.result.tag = "Err"

\* C27: a ground or sky job whose image result does not begin with a URL
\* (no image, or inline data first), and a prop job whose SUCCEEDED task has
\* no glb URL or whose submit answer has no task id, has returned Err - the
\* one error type the foreground matches on - with nothing requested after
\* the malformed answer and no file written by the job.
C27_MalformedIsFailure ==
    /\ (image.generated.tag = "Ok" /\ image.pc \notin {"generate_image", "first_url"}
          /\ (image.generated.images = <<>>
                \/ image.generated.images[1] # "Url")) =>
         /\ image.pc = "returned" /\ image.result.tag = "Err"
         /\ image.log[Len(image.log)].op = "create"
         /\ \A f \in image.written : f.run # image.run
    /\ (pipe.last.http = "ok" /\ pipe.last.status = "SUCCEEDED" /\ ~pipe.last.glb) =>
         /\ pipe.pc = "returned" /\ pipe.result.tag = "Err"
         /\ pipe.log[Len(pipe.log)] \in PollPcs
         /\ FilesOf(pipe.run) = {}
    /\ (pipe.result.tag = "Err" /\ pipe.result.reason = "no_task_id") =>
         /\ pipe.pc = "returned"
         /\ pipe.log[Len(pipe.log)] \in {"create_preview", "create_refine"}
         /\ FilesOf(pipe.run) = {}

\* A ground or sky job has failed on inline data where a URL was expected,
\* and a later prop job on a SUCCEEDED refine task without glb URL.
C27_Witness ==
    /\ image.pc = "returned"
    /\ image.generated.tag = "Ok" /\ image.generated.images # <<>>
    /\ image.generated.images[1] = "Base64"
    /\ pipe.pc = "returned"
    /\ pipe.last.status = "SUCCEEDED" /\ ~pipe.last.glb
    /\ pipe.log[Len(pipe.log)] = "poll_refine"

\* ------------------------------------------------ failure leaves no trace
MonitorStep == StepOf("monitor_generation_tasks")
TasksOf(k) == {e \in entities : e.t = "gen" /\ e.k = k}
ResultsOf(k) == {PollOnce(job[e]) : e \in TasksOf(k)}
KindTexture(k) == IF k = "Ground" THEN GroundTexH ELSE SkyTexH
KindAssets(k, a) ==
    IF k = "Ground" THEN <<a.ground_material>>
    ELSE <<a.env_map_specular, a.env_map_diffuse>>
KindUntouched(k) ==
    /\ KindAssets(k, assets') = KindAssets(k, assets)
    /\ loadState'[KindTexture(k)] = loadState[KindTexture(k)]
KindSpliced(k) ==
    /\ progress'[k].tag = "Succeeded"
    /\ progress'[k].texture = KindTexture(k)
    /\ loadState'[KindTexture(k)] = Load(loadState, KindTexture(k))[KindTexture(k)]
    /\ KindAssets(k, assets') =
          IF k = "Ground" THEN <<progress'[k].material>>
          ELSE <<KindTexture(k), KindTexture(k)>>
    /\ k = "Ground" => progress'[k].material.n = session

\* C28: in a step of monitor_generation_tasks, a kind whose job returned an
\* error gets the status Failed, its job is taken and its entity's despawn
\* queued, and its asset handles and texture load state stay as they were;
\* a kind whose job has not returned keeps its status and its handles; a
\* kind whose job returned a path gets all of its handles, its texture
\* load and Succeeded together; the music handle, the entities and every
\* load state of another asset are unchanged by the step.
C28_FailureMutatesNothing ==
    [][MonitorStep =>
        /\ \A k \in Kinds :
              /\ "err" \in ResultsOf(k) =>
                    /\ progress'[k] = Failed
                    /\ KindUntouched(k)
                    /\ \A e \in TasksOf(k) :
                          job'[e] = "taken" /\ Despawn(e) \in cmds'
              /\ ResultsOf(k) \subseteq {"none"} =>
                    progress'[k] = progress[k] /\ KindUntouched(k)
              /\ "ok" \in ResultsOf(k) => KindSpliced(k)
        /\ assets'.music = assets.music
        /\ entities' = entities
        /\ \A h \in DOMAIN loadState \ {GroundTexH, SkyTexH} :
              loadState'[h] = loadState[h]]_vars

\* Sky has failed while ground was still running and in a session after
\* one that succeeded: the container still holds the handles it had.
C28_Witness ==
    /\ screen = "ProceduralLoading"
    /\ session = 2
    /\ "monitor_generation_tasks" \in ran
    /\ progress["Sky"] = Failed
    /\ progress["Ground"] = InProgress
    /\ job[GenTask("Sky", 2)] = "taken"
    /\ Despawn(GenTask("Sky", 2)) \in cmds
    /\ assets.ground_material = Handle("material", 1)
    /\ assets.env_map_specular = SkyTexH

\* ------------------------------------------------------- status lifecycle
StatusMoves ==
    {<<"Pending", "InProgress">>,
     <<"InProgress", "Succeeded">>, <<"InProgress", "Failed">>,
     <<"InProgress", "Pending">>, <<"Succeeded", "Pending">>,
     <<"Failed", "Pending">>}
EntersLoading == screen # "ProceduralLoading" /\ screen' = "ProceduralLoading"

\* C29: outside the loading screen both statuses are Pending; the step that
\* enters the loading screen sets both to InProgress; a status changes only
\* from Pending to InProgress (and only on entering the loading screen),
\* from InProgress to Succeeded or Failed, or to Pending, and to Pending
\* only in the step that leaves the loading screen.
C29_StatusLifecycle ==
    /\ [](screen # "ProceduralLoading" => progress = GenerationProgressDefault)
    /\ [][/\ EntersLoading => \A k \in Kinds : progress'[k] = InProgress
          /\ \A k \in Kinds :
                progress'[k] # progress[k] =>
                  /\ <<progress[k].tag, progress'[k].tag>> \in StatusMoves
                  /\ progress'[k] = InProgress => EntersLoading
                  /\ progress'[k] = Pending => LeavesLoading]_vars

\* Back at Title after a session in which ground had succeeded and sky had
\* failed: both statuses are Pending again.
C29_Witness ==
    /\ screen = "Title"
    /\ session = 1
    /\ job[GenTask("Ground", 1)] = "taken"
    /\ job[GenTask("Sky", 1)] = "taken"
    /\ assets.ground_material = Handle("material", 1)
    /\ assets.env_map_specular = DefaultSpecularH
    /\ progress = GenerationProgressDefault

\* ------------------------------------------------------ the session ends
\* C30: when every job returns and every asset load finishes, the loading
\* screen is always left again; it is left for the gameplay screen or for
\* Title, for the one screen the gate requested in this session, and the
\* gate has made a request in one tick of the session only.
C30_SessionEnds ==
    /\ (screen = "ProceduralLoading") ~> (screen # "ProceduralLoading")
    /\ [][LeavesLoading =>
            /\ screen' \in {"ProceduralGameplay", "Title"}
            /\ signals = screen'
            /\ signals' = signals]_vars

\* A session that was left for Title because a generated texture failed to
\* load after both jobs had succeeded.
C30_Witness ==
    /\ screen = "Title"
    /\ session = 1
    /\ signals = "Title"
    /\ order = "ground_first"
    /\ loadState[SkyTexH] = "Failed"
    /\ loadState[GroundTexH] = "Loaded"

\* ------------------------------------------------------- the sky cubemap
Converted == sky.pc \in {"faces", "done"}

\* C31: the texture the conversion creates has 6 faces, each square with
\* the side min(h, max(1, floor(w / 2))) of the w x h panorama decoded, and
\* a finished conversion has set all six; a 1024x512 panorama gives faces
\* of 512x512.
C31_SixSquareFaces ==
    /\ Converted =>
         LET w == sky.input.width
             h == sky.input.height
             side == IF h < (IF w \div 2 > 1 THEN w \div 2 ELSE 1) THEN h
                     ELSE (IF w \div 2 > 1 THEN w \div 2 ELSE 1)
         IN /\ sky.texture.faces = 6
            /\ sky.texture.width = side /\ sky.texture.height = side
            /\ sky.face_pixels = side * side * 4
            /\ (w = 1024 /\ h = 512) => side = 512
    /\ sky.pc = "done" => sky.texture.set = 0..5
    /\ sky.pc # "panicked"

\* A panorama one pixel wide has been converted into six 1x1 faces.
C31_Witness ==
    /\ sky.pc = "done"
    /\ sky.input.width = 1 /\ sky.input.height = 3
    /\ sky.texture.width = 1
    /\ sky.texture.set = 0..5

Sampled == sky.pc \in {"cropped", "faces", "done"}

\* C32 as stated: the image that is sampled is exactly twice as wide as it
\* is high.
C32_ExactTwoToOne ==
    Sampled => sky.image.width = 2 * sky.image.height

\* C32, amended: the conversion only crops.  The image that is sampled has
\* the width w of the panorama decoded and the height
\* min(h, max(1, floor(w / 2))): a panorama higher than 2:1 loses its lower
\* rows, a lower one is sampled as it is (stretched over the sphere by the
\* sampling), and the width is twice the height exactly when w is even and
\* h >= w / 2.
C32_CroppedNeverResized ==
    Sampled =>
      LET w == sky.input.width
          h == sky.input.height
          half == IF w \div 2 > 1 THEN w \div 2 ELSE 1
      IN /\ sky.image.width = w
         /\ sky.image.height = (IF h < half THEN h ELSE half)
         /\ sky.image.pat = sky.input.pat
         /\ (sky.image.width = 2 * sky.image.height)
               <=> (w % 2 = 0 /\ 2 * h >= w)

\* A panorama of 6x1 is sampled as it is.
C32_Witness ==
    /\ sky.pc = "done"
    /\ sky.input.width = 6 /\ sky.input.height = 1
    /\ sky.image.width = 6 /\ sky.image.height = 1

\* C33: the four pixels a sample reads lie inside the image, x0 <= x1 and
\* y0 <= y1, and the channel computed is within 0..255.
C33_EdgeClamped ==
    sky.samples > 0 =>
       /\ 0 <= sky.sample.x0 /\ sky.sample.x0 <= sky.sample.x1
       /\ sky.sample.x1 <= sky.image.width - 1
       /\ 0 <= sky.sample.y0 /\ sky.sample.y0 <= sky.sample.y1
       /\ sky.sample.y1 <= sky.image.height - 1
       /\ ~sky.sample.panic
       /\ sky.sample.result \in 0..255

\* A sample at the right and lower edge of an image wider and higher than
\* one pixel: both neighbours are clamped to the last column and row.
C33_Witness ==
    /\ sky.samples > 0
    /\ sky.image.width > 1 /\ sky.image.height > 1
    /\ sky.sample.x0 = sky.image.width - 1 /\ sky.sample.x1 = sky.sample.x0
    /\ sky.sample.y0 = sky.image.height - 1 /\ sky.sample.y1 = sky.sample.y0

\* --------------------------------------------------- one ground, one shape
\* C34 as stated: at every ground position the mesh and the collider cover
\* the same extent, and where they are, the mesh surface, the collider
\* surface and the queried height are the same.
C34_GroundAgrees ==
    ground.probes > 0 =>
       /\ ground.on_mesh <=> ground.on_collider
       /\ (ground.on_mesh /\ ground.on_collider) =>
             /\ ground.mesh_height = ground.collider_height
             /\ ground.mesh_height = ground.query_height

\* ------------------------------------------------------ the prompt's keys
UpdateDone == ui.phase = "update" /\ ui.ran = UiSystems

\* C35 as stated: M pressed while the prompt is open closes it.
C35_MCloses ==
    (UpdateDone /\ ui.was_open /\ "M" \in ui.keys) => ~ui.root

\* C38 as stated: after a tick in which Escape was pressed with the prompt
\* open, whatever the order of the systems, the pause is not requested, no
\* pause overlay was spawned, the pause menu is not requested, and the
\* game is being unpaused if opening the prompt had paused it.
C38_EscapeOnlyCloses ==
    (UpdateDone /\ ui.was_open /\ ui.keys = {"Esc"}) =>
       /\ ~ui.root
       /\ ui.cond = "false"
       /\ ui.next_pause # "true"
       /\ ui.next_menu # "Pause"
       /\ ui.was_paused_game => ui.next_pause = "false"

PromptOpens == ~ui.root /\ ui'.root
PromptCloses == ui.root /\ ~ui'.root
LeavesGameplay == ui.screen = "ProceduralGameplay" /\ ui'.screen # ui.screen
OthersOf(blocks) == blocks \ {OverlayId}

\* C39: while the prompt is closed paused_game and blocked_input are false
\* and neither the input block nor the free-cursor request of the overlay
\* is left; opening an open prompt changes nothing; opening sets
\* paused_game and requests the pause exactly when the game was not
\* paused, and adds the block and the request; the flags keep their values
\* while the prompt stays open; a close by Escape or by a submitted prompt
\* requests the unpause exactly when paused_game was set and changes no
\* other request, menu, overlay or input block; and leaving the gameplay
\* screen closes the prompt with the unpause that leaving requests anyway.
C39_OpenCloseRestores ==
    /\ [](~ui.root =>
            /\ ~ui.paused_game /\ ~ui.blocked_input
            /\ OverlayId \notin ui.blocks_input
            /\ OverlayId \notin ui.wants_free_cursor)
    /\ [](ui.root => \A p \in BOOLEAN : OpenModelPromptUi(ui, p) = ui)
    /\ [][/\ PromptOpens =>
               /\ ui'.paused_game = ~ui.pause
               /\ ui'.next_pause = IF ui.pause THEN ui.next_pause ELSE "true"
               /\ ui'.blocked_input
               /\ ui'.blocks_input = ui.blocks_input \cup {OverlayId}
               /\ ui.crosshair => OverlayId \in ui'.wants_free_cursor
          /\ (ui.root /\ ui'.root) =>
               /\ ui'.paused_game = ui.paused_game
               /\ ui'.blocked_input = ui.blocked_input
          /\ (PromptCloses /\ ~LeavesGameplay) =>
               /\ ui'.next_pause = IF ui.paused_game THEN "false"
                                    ELSE ui.next_pause
               /\ ui'.next_menu = ui.next_menu
               /\ ui'.next_screen = ui.next_screen
               /\ ui'.overlay = ui.overlay
               /\ ui'.menu = ui.menu /\ ui'.pause = ui.pause
          /\ (PromptOpens \/ PromptCloses) =>
               OthersOf(ui'.blocks_input) = OthersOf(ui.blocks_input)
          /\ (PromptCloses /\ LeavesGameplay) =>
               ui'.menu = "None" /\ ~ui'.pause]_vars

\* A prompt opened while the pause menu had paused the game has been
\* closed by a submitted text: the game stays paused and the other input
\* block stays.
C39_Witness ==
    /\ ui.phase = "update"
    /\ ui.was_open /\ ~ui.root
    /\ ui.event = "a"
    /\ ui.menu = "Pause" /\ ui.pause
    /\ ui.next_pause = "Unchanged"
    /\ ui.crosshair
    /\ ui.blocks_input = {"other"}

\* ------------------------------------------------- what a fallback leaves
EndedInFallback == screen # "ProceduralLoading" /\ signals = "Title"

\* C36 as stated: after a session that ended in the fallback, the asset
\* container holds no ground material built in that session, and after a
\* first session that ended so it is as it was built at start-up.
C36_FallbackRestoresAssets ==
    EndedInFallback =>
       /\ assets.ground_material # Handle("material", session)
       /\ session = 1 => assets = ProceduralLevelAssetsFromWorld

\* C37 as stated: outside the loading screen there is no ground or sky job
\* entity.
C37_NoJobOutsideLoading ==
    screen # "ProceduralLoading" => GenEntities = {}

====
